---- MODULE Spec2Model ----
(***************************************************************************)
(* State-machine model of the signal-combination engine of myfinance2.    *)
(*                                                                         *)
(* HybridSignalCombiner.combine_signals (src/combiner.py) is a bar-by-bar  *)
(* loop over a table df.  The model keeps the table's three input columns *)
(* and the output column as sequences, the loop's locals as variables,    *)
(* and one action per step of the method: its prologue (Call), one loop   *)
(* iteration (LoopBody) and its return (Return).  The caller may run the  *)
(* method again on the same table, or on the sign-reversed table          *)
(* (NegateInputs), which is how the relational properties are observed.   *)
(*                                                                         *)
(* Bars are numbered from 0 as in the source; bar b of a column is the    *)
(* element b + 1 of its sequence.                                          *)
(***************************************************************************)
EXTENDS Integers, Sequences, FiniteSets, TLC

\* ------------------------------------------------------------------ bounds

\* Longest table (number of bars) the model enumerates.
MaxLen == 3

\* Number of combine_signals calls made on one table by the caller.
MaxRuns == 2

\* Longest combined-signal column handed to add_signal_metadata.
MaxMetaLen == 5

\* Number of add_signal_metadata runs (direct or through get_trade_summary)
\* made on one table.
MaxMetaCalls == 3

\* Longest table handed to calculate_shares.
MaxSizingBars == 4

\* Longest equity curve handed to risk_appetite on its own.
MaxCurveLen == 3

\* Longest table handed to a SignalGridSearch.
MaxGridBars == 2

\* Longest signal list of a SignalGridSearch.
MaxSignals == 2

\* Largest n_jobs argument.
MaxJobs == 2

\* Largest cpu_count().
MaxCores == 2

\* Largest number of units of work (combinations, signals or symbols) of a
\* parallel entry point.
MaxUnits == 3

\* ----------------------------------------------------------------- domains

\* Values of a signal column: 1 bullish, 0 neutral, -1 bearish.
Ternary == {-1, 0, 1}

\* A row of the three input columns: <<direction, entry, exit>>.
Rows == Ternary \X Ternary \X Ternary

\* Rows holding a value outside {-1, 0, 1}.  The value 2 stands for any such
\* value, a missing value (NaN) included: the loop only compares an input
\* with 1 and -1, and every such value compares unequal to both.
OffDomainRows ==
    {<<2, 1, 0>>, <<2, -1, 0>>, <<0, 2, 0>>, <<0, 0, 2>>, <<2, 2, 2>>}

\* The rows enumerated for a bar the loop reads.
BarRows == Rows \cup OffDomainRows

\* Rows enumerated for bar 0, which the loop never reads.
Bar0Rows == {<<0, 0, 0>>, <<1, 1, 1>>}

\* The output column as the caller hands it over: n stale values, none of
\* them a position.
StaleColumn(n) == [k \in 1..n |-> 2]

VARIABLES
    df_direction,             \* df[self.direction_col]
    df_entry,                 \* df[self.entry_col]
    df_exit,                  \* df[self.exit_col]
    df_out,                   \* df[output_col]
    allow_flips,              \* parameter of combine_signals
    require_regime_alignment, \* parameter of combine_signals
    current_position,         \* local of combine_signals
    prev_position,            \* local of combine_signals
    i,                        \* loop index of combine_signals
    pc,                       \* "idle" | "loop"
    runs,                     \* completed calls on this table
    mirrored,                 \* the inputs are the sign reversal of the original ones
    first_out,                \* output column returned by the first call
    df_columns,               \* which of the three input columns df holds
    cs_error,                 \* the exception that ended combine_signals, or "none"
    \* add_signal_metadata / get_trade_summary, on the column df_out
    position_changed,         \* df['position_changed']
    trade_type,               \* df['trade_type']
    bars_in_position,         \* df['bars_in_position']
    position_direction,       \* df['position_direction']
    bars_count,               \* local of add_signal_metadata
    meta_i,                   \* loop index of add_signal_metadata
    meta_pc,                  \* "idle" | "loop"
    meta_caller,              \* "none" | "user" | "summary": who made the last call of add_signal_metadata
    meta_calls,               \* completed add_signal_metadata calls on this table
    first_meta,               \* the four metadata columns and df_out after the first call
    summary,                  \* the record get_trade_summary returned last
    \* SignalGridSearch
    n_rows,                   \* len(df) of the table handed to the constructor
    df_arg,                   \* the caller's table: column name -> column
    self_df,                  \* self.df
    available_signals,        \* the caller's list; self.available_signals is this list
    direction_col,            \* self.direction_col
    g_pc,                     \* "rest" | "new" | "ready" | "sequential" | "workers" | "stocks" | "done" | "raised"
    g_error,                  \* the exception that ended the last call, or "none"
    g_method,                 \* the method the caller called last
    grid,                     \* local grid of the running method
    results,                  \* local results of the running method, then self.results
    run_flips,                \* argument allow_flips of the running method
    run_strict,               \* argument require_regime_alignment of the running method
    batch_size,               \* local batch_size of _run_multiprocessing / _run_joblib
    pending,                  \* chunks handed to the workers and not yet returned
    worker_results,           \* grid index -> record a worker has returned
    stock_dfs,                \* argument stock_dfs: ticker -> table
    stock_results,            \* local stock_results: ticker -> records
    stocks_mode,              \* "none" | "sequential" | "pool"
    stocks_pending,           \* symbols not yet processed
    add_signals_to_dfs,       \* argument add_signals_to_dfs
    \* parallel entry points
    d_strategy,               \* the entry point called
    d_n_jobs,                 \* its argument n_jobs
    d_cores,                  \* cpu_count()
    d_units,                  \* number of units of work
    d_pc,                     \* "idle" | "running" | "done" | "raised"
    d_path,                   \* "none" | "sequential" | "pool" | "multiprocessing" | "joblib"
    d_error,                  \* the exception raised, or "none"
    d_workers,                \* processes asked of the pool or executor created, 0 if none
    d_pending,                \* units not yet completed
    \* PositionSizing
    ps_params,                \* the arguments of PositionSizing(...), << >> before a call
    sizer,                    \* the attributes of the PositionSizing object, << >> if none exists
    ps_pc,                    \* "rest" | "new" | "ready" | "loop" | "done" | "raised" (the constructor) | "failed" (calculate_shares)
    ps_error,                 \* the exception that ended the last call, or "none"
    ps_df,                    \* the input columns of df: signal, close, stop_loss, daily_chg
    df_equity,                \* the four equity columns of df
    df_shares,                \* the four shares columns of df
    df_risk,                  \* the two risk columns of df
    shares_dict,              \* local shares_dict of calculate_shares
    ps_i,                     \* loop index of calculate_shares
    \* eqty_risk_shares and risk_appetite called on their own
    ers_args,                 \* arguments of eqty_risk_shares
    ers_result,               \* << >>, or <<what the call produced>>
    ra_args,                  \* arguments of risk_appetite
    ra_result,                \* << >>, or <<the series returned>>
    \* run_position_sizing_parallel_over_stocks
    ps_stock_dfs,             \* argument stock_dfs: ticker -> table
    ps_stock_results,         \* local stock_results: ticker -> table
    ps_stocks_mode,           \* "none" | "sequential" | "pool"
    ps_stocks_pending,        \* symbols not yet processed
    ps_stocks_pc,             \* "rest" | "ready" | "stocks" | "done" | "raised"
    ps_ticker,                \* symbol whose table a worker is sizing, or "none"
    \* tables as objects: calculate_shares_for_signal and
    \* _process_stock_position_sizing
    ps_heap,                  \* table objects by reference, apart from the
                              \* columns calculate_shares is writing
    ps_df_ref,                \* the object behind df in calculate_shares
    ps_result_df,             \* the object behind result_df in the worker
    signal_k,                 \* position in the list signals
    ps_call                   \* which operation the caller runs, and where
                              \* it is: "rest" | "direct" | "wrapper" |
                              \* "stocks" | "signals" | "sizing" | "called"

\* The variables of combine_signals and of its caller.
combinerVars == <<df_direction, df_entry, df_exit, allow_flips,
                  require_regime_alignment, current_position, prev_position,
                  i, pc, runs, mirrored, first_out, df_columns, cs_error>>

\* The variables of add_signal_metadata and get_trade_summary.
metaVars == <<position_changed, trade_type, bars_in_position,
              position_direction, bars_count, meta_i, meta_pc, meta_caller,
              meta_calls, first_meta, summary>>

\* The variables of SignalGridSearch and of its caller.
gridVars == <<n_rows, df_arg, self_df, available_signals, direction_col,
              g_pc, g_error, g_method, grid, results, run_flips, run_strict,
              batch_size, pending, worker_results, stock_dfs, stock_results,
              stocks_mode, stocks_pending, add_signals_to_dfs>>

\* The variables of the parallel entry points.
dispatchVars == <<d_strategy, d_n_jobs, d_cores, d_units, d_pc, d_path,
                  d_error, d_workers, d_pending>>

\* The variables of the tables as objects.
workerVars == <<ps_heap, ps_df_ref, ps_result_df, signal_k, ps_call>>

\* The variables of PositionSizing, of its callers and of the fan-out of
\* position sizing over symbols.
sizingVars == <<ps_params, sizer, ps_pc, ps_error, ps_df, df_equity, df_shares, df_risk,
                shares_dict, ps_i, ers_args, ers_result, ra_args, ra_result,
                ps_stock_dfs, ps_stock_results, ps_stocks_mode,
                ps_stocks_pending, ps_stocks_pc, ps_ticker, workerVars>>

\* What combine_signals never touches.
nonCombinerVars == <<metaVars, gridVars, dispatchVars, sizingVars>>

vars == <<combinerVars, df_out, metaVars, gridVars, dispatchVars, sizingVars>>

\* len(df)
NBars == Len(df_direction)

\* df.at[b, col] for the 0-based bar b
At(col, b) == col[b + 1]

\* ------------------------------------------------------- transition rules

\* FlatStep whose strict branch applies the loose test.
FlatStepLoose(direction, entry, exit_signal, flips, strict) ==
    IF entry = 1
    THEN (IF direction # -1 THEN 1 ELSE 0)
    ELSE IF entry = -1
    THEN (IF direction # 1 THEN -1 ELSE 0)
    ELSE 0

\* STATE: FLAT (looking for entries)
FlatStep(direction, entry, exit_signal, flips, strict) ==
    IF entry = 1
    THEN IF strict
         THEN (IF direction = 1 THEN 1 ELSE 0)
         ELSE (IF direction # -1 THEN 1 ELSE 0)
    ELSE IF entry = -1
    THEN IF strict
         THEN (IF direction = -1 THEN -1 ELSE 0)
         ELSE (IF direction # 1 THEN -1 ELSE 0)
    ELSE 0

\* LongStep with the direction-driven branch tested before the exit signal.
LongStepRegimeFirst(direction, entry, exit_signal, flips, strict) ==
    IF direction = -1
    THEN (IF flips /\ entry = -1 THEN -1 ELSE 0)
    ELSE IF exit_signal = -1
    THEN 0
    ELSE IF flips /\ entry = -1 /\ ~strict
    THEN -1
    ELSE 1

\* LongStep whose flips do not test allow_flips.
LongStepAlwaysFlips(direction, entry, exit_signal, flips, strict) ==
    IF exit_signal = -1
    THEN 0
    ELSE IF direction = -1
    THEN (IF entry = -1 THEN -1 ELSE 0)
    ELSE IF entry = -1 /\ ~strict
    THEN -1
    ELSE 1

\* LongStep whose regime-driven exit is taken only under strict alignment.
LongStepStrictExit(direction, entry, exit_signal, flips, strict) ==
    IF exit_signal = -1
    THEN 0
    ELSE IF direction = -1 /\ strict
    THEN (IF flips /\ entry = -1 THEN -1 ELSE 0)
    ELSE IF flips /\ entry = -1 /\ ~strict
    THEN -1
    ELSE 1

\* LongStep without the flip on the entry signal alone.
LongStepNoEntryFlip(direction, entry, exit_signal, flips, strict) ==
    IF exit_signal = -1
    THEN 0
    ELSE IF direction = -1
    THEN (IF flips /\ entry = -1 THEN -1 ELSE 0)
    ELSE 1

\* STATE: LONG (managing long position)
LongStep(direction, entry, exit_signal, flips, strict) ==
    IF exit_signal = -1
    THEN 0
    ELSE IF direction = -1
    THEN (IF flips /\ entry = -1 THEN -1 ELSE 0)
    ELSE IF flips /\ entry = -1 /\ ~strict
    THEN -1
    ELSE 1

\* ShortStep without the regime-driven exit or flip.
ShortStepNoRegime(direction, entry, exit_signal, flips, strict) ==
    IF exit_signal = 1
    THEN 0
    ELSE IF flips /\ entry = 1 /\ ~strict
    THEN 1
    ELSE -1

\* ShortStep that leaves the position whenever the regime is not bearish.
ShortStepNeutralExit(direction, entry, exit_signal, flips, strict) ==
    IF exit_signal = 1
    THEN 0
    ELSE IF direction # -1
    THEN (IF flips /\ entry = 1 THEN 1 ELSE 0)
    ELSE IF flips /\ entry = 1 /\ ~strict
    THEN 1
    ELSE -1

\* STATE: SHORT (managing short position)
ShortStep(direction, entry, exit_signal, flips, strict) ==
    IF exit_signal = 1
    THEN 0
    ELSE IF direction = 1
    THEN (IF flips /\ entry = 1 THEN 1 ELSE 0)
    ELSE IF flips /\ entry = 1 /\ ~strict
    THEN 1
    ELSE -1

\* The if / elif / elif on current_position of one loop iteration.
NextPosition(position, direction, entry, exit_signal, flips, strict) ==
    IF position = 0
    THEN FlatStep(direction, entry, exit_signal, flips, strict)
    ELSE IF position = 1
    THEN LongStep(direction, entry, exit_signal, flips, strict)
    ELSE IF position = -1
    THEN ShortStep(direction, entry, exit_signal, flips, strict)
    ELSE position

\* ------------------------------------------------------------ rest values

\* An exact quotient a / b, kept as the pair <<a, b>>.
Frac(a, b) == <<a, b>>

\* The number 0 as a quotient.
Zero == Frac(0, 1)

\* The result of a division by zero.
DivError == Frac(0, 0)

\* The summary before get_trade_summary has run.
NoSummary ==
    [total_bars |-> 0, long_bars |-> 0, short_bars |-> 0, flat_bars |-> 0,
     long_pct |-> Zero, short_pct |-> Zero, flat_pct |-> Zero,
     entry_long_count |-> 0, entry_short_count |-> 0,
     exit_long_count |-> 0, exit_short_count |-> 0,
     flip_long_to_short_count |-> 0, flip_short_to_long_count |-> 0,
     total_entries |-> 0, total_exits |-> 0,
     avg_bars_per_long_trade |-> Zero, avg_bars_per_short_trade |-> Zero]

\* No metadata column exists and neither method has been called.
MetaAtRest ==
    /\ position_changed = << >>
    /\ trade_type = << >>
    /\ bars_in_position = << >>
    /\ position_direction = << >>
    /\ bars_count = 0
    /\ meta_i = 0
    /\ meta_pc = "idle"
    /\ meta_caller = "none"
    /\ meta_calls = 0
    /\ first_meta = << >>
    /\ summary = NoSummary

\* combine_signals is not running and holds no table.
CombinerAtRest ==
    /\ df_direction = << >>
    /\ df_entry = << >>
    /\ df_exit = << >>
    /\ allow_flips = TRUE
    /\ require_regime_alignment = TRUE
    /\ current_position = 0
    /\ prev_position = 0
    /\ i = 0
    /\ pc = "idle"
    /\ runs = 0
    /\ mirrored = FALSE
    /\ first_out = << >>
    /\ df_columns = {}
    /\ cs_error = "none"

\* No searcher has been constructed.
GridAtRest ==
    /\ n_rows = 0
    /\ df_arg = << >>
    /\ self_df = << >>
    /\ available_signals = << >>
    /\ direction_col = "d"
    /\ g_pc = "rest"
    /\ g_error = "none"
    /\ g_method = "none"
    /\ grid = << >>
    /\ results = << >>
    /\ run_flips = TRUE
    /\ run_strict = TRUE
    /\ batch_size = 0
    /\ pending = {}
    /\ worker_results = << >>
    /\ stock_dfs = << >>
    /\ stock_results = << >>
    /\ stocks_mode = "none"
    /\ stocks_pending = {}
    /\ add_signals_to_dfs = FALSE

\* No parallel entry point has been called.
DispatchAtRest ==
    /\ d_strategy = "none"
    /\ d_n_jobs = 1
    /\ d_cores = 1
    /\ d_units = 0
    /\ d_pc = "idle"
    /\ d_path = "none"
    /\ d_error = "none"
    /\ d_workers = 0
    /\ d_pending = {}

\* No position sizer exists, no table is being sized and no fan-out of
\* position sizing is under way.
\* No table object exists and no operation on one runs.
WorkerAtRest ==
    /\ ps_heap = << >>
    /\ ps_df_ref = << >>
    /\ ps_result_df = << >>
    /\ signal_k = 0
    /\ ps_call = "rest"

SizingAtRest ==
    /\ ps_params = << >>
    /\ sizer = << >>
    /\ ps_pc = "rest"
    /\ ps_error = "none"
    /\ ps_df = << >>
    /\ WorkerAtRest
    /\ df_equity = << >>
    /\ df_shares = << >>
    /\ df_risk = << >>
    /\ shares_dict = << >>
    /\ ps_i = 0
    /\ ers_args = << >>
    /\ ers_result = << >>
    /\ ra_args = << >>
    /\ ra_result = << >>
    /\ ps_stock_dfs = << >>
    /\ ps_stock_results = << >>
    /\ ps_stocks_mode = "none"
    /\ ps_stocks_pending = {}
    /\ ps_stocks_pc = "rest"
    /\ ps_ticker = "none"

\* ------------------------------------------------------------------- Init

\* The three columns combine_signals reads, by the attribute that names
\* them.
InputColumns == {"direction_col", "entry_col", "exit_col"}

\* The tables of n bars: bar 0 from Bar0Rows, every later bar from BarRows.
Tables(n) ==
    IF n = 0 THEN {<< >>}
    ELSE {t \in [1..n -> BarRows \cup Bar0Rows] :
            /\ t[1] \in Bar0Rows
            /\ \A k \in 2..n : t[k] \in BarRows}

Init ==
    \E n \in 0..MaxLen :
      \E t \in Tables(n) :
        /\ df_direction = [k \in 1..n |-> t[k][1]]
        /\ df_entry = [k \in 1..n |-> t[k][2]]
        /\ df_exit = [k \in 1..n |-> t[k][3]]
        /\ df_out = StaleColumn(n)
        /\ allow_flips \in BOOLEAN
        /\ require_regime_alignment \in BOOLEAN
        /\ current_position = 0
        /\ prev_position = 0
        /\ i = 0
        /\ pc = "idle"
        /\ runs = 0
        /\ mirrored = FALSE
        /\ first_out = << >>
        /\ df_columns = InputColumns
        /\ cs_error = "none"
        /\ MetaAtRest
        /\ GridAtRest
        /\ DispatchAtRest
        /\ SizingAtRest

\* ---------------------------------------------------------------- actions

\* Call with the loop starting at bar 0.
CallFromBarZero ==
    /\ pc = "idle"
    /\ runs < MaxRuns
    /\ df_out' = [k \in 1..NBars |-> 0]
    /\ current_position' = 0
    /\ prev_position' = 0
    /\ i' = 0
    /\ pc' = "loop"
    /\ UNCHANGED <<df_direction, df_entry, df_exit, allow_flips,
                   require_regime_alignment, runs, mirrored, first_out,
                   df_columns, cs_error>>
    /\ UNCHANGED nonCombinerVars

\* Call that keeps the position the previous call ended in.
CallKeepsPosition ==
    /\ pc = "idle"
    /\ runs < MaxRuns
    /\ df_out' = [k \in 1..NBars |-> 0]
    /\ current_position' = current_position
    /\ prev_position' = 0
    /\ i' = 1
    /\ pc' = "loop"
    /\ UNCHANGED <<df_direction, df_entry, df_exit, allow_flips,
                   require_regime_alignment, runs, mirrored, first_out,
                   df_columns, cs_error>>
    /\ UNCHANGED nonCombinerVars

\* combine_signals is entered: the output column is (over)written with 0
\* and the position starts FLAT.
Call ==
    /\ pc = "idle"
    /\ runs < MaxRuns
    /\ df_out' = [k \in 1..NBars |-> 0]
    /\ current_position' = 0
    /\ prev_position' = 0
    /\ i' = 1
    /\ pc' = "loop"
    /\ UNCHANGED <<df_direction, df_entry, df_exit, allow_flips,
                   require_regime_alignment, runs, mirrored, first_out,
                   df_columns, cs_error>>
    /\ UNCHANGED nonCombinerVars

\* One iteration of `for i in range(1, len(df))`.
LoopBody ==
    /\ pc = "loop"
    /\ i < NBars
    /\ df_columns = InputColumns
    /\ prev_position' = current_position
    /\ current_position' = NextPosition(current_position,
                                        At(df_direction, i),
                                        At(df_entry, i),
                                        At(df_exit, i),
                                        allow_flips,
                                        require_regime_alignment)
    /\ df_out' = [df_out EXCEPT ![i + 1] = current_position']
    /\ i' = i + 1
    /\ UNCHANGED <<df_direction, df_entry, df_exit, allow_flips,
                   require_regime_alignment, pc, runs, mirrored, first_out,
                   df_columns, cs_error>>
    /\ UNCHANGED nonCombinerVars

\* The loop is exhausted: `return df`.
Return ==
    /\ pc = "loop"
    /\ i >= NBars
    /\ pc' = "idle"
    /\ runs' = runs + 1
    /\ first_out' = IF runs = 0 THEN df_out ELSE first_out
    /\ UNCHANGED <<df_direction, df_entry, df_exit, df_out, allow_flips,
                   require_regime_alignment, current_position, prev_position,
                   i, mirrored, df_columns, cs_error>>
    /\ UNCHANGED nonCombinerVars

\* Between two calls the caller reverses the sign of the three input columns.
NegateInputs ==
    /\ pc = "idle"
    /\ runs >= 1
    /\ runs < MaxRuns
    /\ df_direction' = [k \in 1..NBars |-> 0 - df_direction[k]]
    /\ df_entry' = [k \in 1..NBars |-> 0 - df_entry[k]]
    /\ df_exit' = [k \in 1..NBars |-> 0 - df_exit[k]]
    /\ mirrored' = ~mirrored
    /\ UNCHANGED <<df_out, allow_flips, require_regime_alignment,
                   current_position, prev_position, i, pc, runs, first_out,
                   df_columns, cs_error>>
    /\ UNCHANGED nonCombinerVars

Next == Call \/ LoopBody \/ Return \/ NegateInputs

Spec == Init /\ [][Next]_vars

\* An iteration of the loop on a table that lacks one of the three columns:
\* df.at raises KeyError at the first of them it is asked for, and the
\* exception leaves combine_signals.
LoopRaises ==
    /\ pc = "loop"
    /\ i < NBars
    /\ df_columns # InputColumns
    /\ pc' = "raised"
    /\ cs_error' = "KeyError"
    /\ UNCHANGED <<df_direction, df_entry, df_exit, df_out, allow_flips,
                   require_regime_alignment, current_position, prev_position,
                   i, runs, mirrored, first_out, df_columns>>
    /\ UNCHANGED nonCombinerVars

\* The tables of up to MaxLen bars that hold any of the three columns; the
\* bars are alike, and a column the table lacks is kept as values nothing
\* reads.
SchemaInit ==
    \E n \in 0..MaxLen, row \in Rows :
        /\ df_direction = [k \in 1..n |-> row[1]]
        /\ df_entry = [k \in 1..n |-> row[2]]
        /\ df_exit = [k \in 1..n |-> row[3]]
        /\ df_out = StaleColumn(n)
        /\ df_columns \in SUBSET InputColumns
        /\ allow_flips \in BOOLEAN
        /\ require_regime_alignment \in BOOLEAN
        /\ current_position = 0
        /\ prev_position = 0
        /\ i = 0
        /\ pc = "idle"
        /\ runs = 0
        /\ mirrored = FALSE
        /\ first_out = << >>
        /\ cs_error = "none"
        /\ MetaAtRest
        /\ GridAtRest
        /\ DispatchAtRest
        /\ SizingAtRest

SchemaNext == Call \/ LoopBody \/ LoopRaises \/ Return

SpecSchema == SchemaInit /\ [][SchemaNext]_vars

\* --------------------------------- add_signal_metadata, get_trade_summary

\* df[output_col] != df[output_col].shift(1): bar 0 is compared with a
\* missing value and differs from it.
ShiftedDiffers(col) ==
    [k \in 1..Len(col) |-> IF k = 1 THEN TRUE ELSE col[k] # col[k - 1]]

\* The trade type of a bar with the flat branch tested before the exits.
TradeTypeFlatFirst(prev_pos, curr_pos) ==
    IF curr_pos = 0 THEN "flat"
    ELSE IF prev_pos = 0 /\ curr_pos = 1 THEN "entry_long"
    ELSE IF prev_pos = 0 /\ curr_pos = -1 THEN "entry_short"
    ELSE IF prev_pos = 1 /\ curr_pos = -1 THEN "flip_long_to_short"
    ELSE IF prev_pos = -1 /\ curr_pos = 1 THEN "flip_short_to_long"
    ELSE "hold"

\* The if / elif chain that names the trade type of a bar.
TradeTypeOf(prev_pos, curr_pos) ==
    IF prev_pos = 0 /\ curr_pos = 1 THEN "entry_long"
    ELSE IF prev_pos = 0 /\ curr_pos = -1 THEN "entry_short"
    ELSE IF prev_pos = 1 /\ curr_pos = 0 THEN "exit_long"
    ELSE IF prev_pos = -1 /\ curr_pos = 0 THEN "exit_short"
    ELSE IF prev_pos = 1 /\ curr_pos = -1 THEN "flip_long_to_short"
    ELSE IF prev_pos = -1 /\ curr_pos = 1 THEN "flip_short_to_long"
    ELSE IF curr_pos = 0 THEN "flat"
    ELSE "hold"

\* bars_count that keeps counting through flat bars.
BarsCountFlatCounts(prev_pos, curr_pos, count) ==
    IF prev_pos = curr_pos THEN count + 1 ELSE 0

\* bars_count after the chain: reset in every branch but the last.
BarsCountAfter(prev_pos, curr_pos, count) ==
    IF TradeTypeOf(prev_pos, curr_pos) = "hold" THEN count + 1 ELSE 0

\* The position direction of a bar.
DirectionOf(curr_pos) ==
    IF curr_pos = 1 THEN "long"
    ELSE IF curr_pos = -1 THEN "short"
    ELSE "flat"

\* bars_count at the start of a call, left as the previous call ended.
InitialBarsCountKept == bars_count

\* bars_count = 0 before the loop.
InitialBarsCount == 0

\* The prologue of add_signal_metadata: the four columns are (over)written
\* with their defaults.
MetaPrologue(caller) ==
    /\ meta_pc = "idle"
    /\ meta_calls < MaxMetaCalls
    /\ position_changed' = ShiftedDiffers(df_out)
    /\ trade_type' = [k \in 1..Len(df_out) |-> "hold"]
    /\ bars_in_position' = [k \in 1..Len(df_out) |-> 0]
    /\ position_direction' = [k \in 1..Len(df_out) |-> "flat"]
    /\ bars_count' = InitialBarsCount
    /\ meta_i' = 1
    /\ meta_pc' = "loop"
    /\ meta_caller' = caller
    /\ UNCHANGED <<meta_calls, first_meta, summary, df_out, combinerVars, gridVars,
                   dispatchVars, sizingVars>>

\* The caller calls add_signal_metadata.
AddMetadataCall == MetaPrologue("user")

\* The caller calls get_trade_summary, which first calls
\* add_signal_metadata.
GetTradeSummaryCall == MetaPrologue("summary")

\* One iteration of `for i in range(1, len(df))` of add_signal_metadata.
MetaLoopBody ==
    /\ meta_pc = "loop"
    /\ meta_i < Len(df_out)
    /\ LET prev_pos == At(df_out, meta_i - 1)
           curr_pos == At(df_out, meta_i)
       IN /\ trade_type' =
                [trade_type EXCEPT ![meta_i + 1] = TradeTypeOf(prev_pos, curr_pos)]
          /\ bars_count' = BarsCountAfter(prev_pos, curr_pos, bars_count)
          /\ position_direction' =
                [position_direction EXCEPT ![meta_i + 1] = DirectionOf(curr_pos)]
          /\ bars_in_position' =
                [bars_in_position EXCEPT ![meta_i + 1] = bars_count']
    /\ meta_i' = meta_i + 1
    /\ UNCHANGED <<position_changed, meta_pc, meta_caller, meta_calls,
                   first_meta, summary, df_out, combinerVars, gridVars,
                   dispatchVars, sizingVars>>

\* What a call leaves in the table: the four metadata columns and the
\* combined-signal column.
MetaColumns ==
    <<position_changed, trade_type, bars_in_position, position_direction,
      df_out>>

\* add_signal_metadata returns to the caller.
AddMetadataReturn ==
    /\ meta_pc = "loop"
    /\ meta_i >= Len(df_out)
    /\ meta_caller = "user"
    /\ meta_pc' = "idle"
    /\ meta_calls' = meta_calls + 1
    /\ first_meta' = IF meta_calls = 0 THEN MetaColumns ELSE first_meta
    /\ UNCHANGED <<position_changed, trade_type, bars_in_position,
                   position_direction, bars_count, meta_i, meta_caller,
                   summary, df_out, combinerVars, gridVars,
                   dispatchVars, sizingVars>>

\* (df[output_col] == v).sum()
CountBars(col, v) == Cardinality({k \in 1..Len(col) : col[k] = v})

\* df['trade_type'].value_counts().get(t, 0)
CountType(types, t) == Cardinality({k \in 1..Len(types) : types[k] = t})

\* `a / b if guard else 0`; a division by zero is the value DivError.
GuardedDiv(guard, a, b) ==
    IF guard THEN (IF b = 0 THEN DivError ELSE Frac(a, b)) ELSE Zero

\* A percentage computed without the total_bars > 0 guard.
PctUnguarded(bars, total_bars) == GuardedDiv(TRUE, bars * 100, total_bars)

\* (bars / total_bars * 100) if total_bars > 0 else 0
Pct(bars, total_bars) == GuardedDiv(total_bars > 0, bars * 100, total_bars)

\* An average that divides by every bar that opened the position, flips
\* included.
AvgBarsOverFlips(bars, entries, flips_in) ==
    GuardedDiv(entries + flips_in > 0, bars, entries + flips_in)

\* (bars / trade_counts.get(entry, 1)) if trade_counts.get(entry, 0) > 0 else 0
AvgBars(bars, entries, flips_in) ==
    GuardedDiv(entries > 0, bars, IF entries = 0 THEN 1 ELSE entries)

\* The summary dictionary of get_trade_summary.
SummaryOf(col, types) ==
    LET total == Len(col)
        long == CountBars(col, 1)
        short == CountBars(col, -1)
        flat == CountBars(col, 0)
    IN [total_bars |-> total,
        long_bars |-> long,
        short_bars |-> short,
        flat_bars |-> flat,
        long_pct |-> Pct(long, total),
        short_pct |-> Pct(short, total),
        flat_pct |-> Pct(flat, total),
        entry_long_count |-> CountType(types, "entry_long"),
        entry_short_count |-> CountType(types, "entry_short"),
        exit_long_count |-> CountType(types, "exit_long"),
        exit_short_count |-> CountType(types, "exit_short"),
        flip_long_to_short_count |-> CountType(types, "flip_long_to_short"),
        flip_short_to_long_count |-> CountType(types, "flip_short_to_long"),
        total_entries |-> CountType(types, "entry_long")
                          + CountType(types, "entry_short")
                          + CountType(types, "flip_long_to_short")
                          + CountType(types, "flip_short_to_long"),
        total_exits |-> CountType(types, "exit_long")
                        + CountType(types, "exit_short"),
        avg_bars_per_long_trade |->
            AvgBars(long, CountType(types, "entry_long"),
                    CountType(types, "flip_short_to_long")),
        avg_bars_per_short_trade |->
            AvgBars(short, CountType(types, "entry_short"),
                    CountType(types, "flip_long_to_short"))]

\* add_signal_metadata has returned into get_trade_summary, which builds the
\* summary and returns it.
TradeSummary ==
    /\ meta_pc = "loop"
    /\ meta_i >= Len(df_out)
    /\ meta_caller = "summary"
    /\ summary' = SummaryOf(df_out, trade_type)
    /\ meta_pc' = "idle"
    /\ meta_calls' = meta_calls + 1
    /\ first_meta' = IF meta_calls = 0 THEN MetaColumns ELSE first_meta
    /\ UNCHANGED <<position_changed, trade_type, bars_in_position,
                   position_direction, bars_count, meta_i, meta_caller,
                   df_out, combinerVars, gridVars,
                   dispatchVars, sizingVars>>

\* A table whose combined-signal column holds any positions; it has no
\* metadata columns yet.
MetaInit ==
    /\ \E n \in 0..MaxMetaLen : df_out \in [1..n -> Ternary]
    /\ CombinerAtRest
    /\ MetaAtRest
    /\ GridAtRest
    /\ DispatchAtRest
    /\ SizingAtRest

MetaNext ==
    \/ AddMetadataCall
    \/ GetTradeSummaryCall
    \/ MetaLoopBody
    \/ AddMetadataReturn
    \/ TradeSummary

SpecMeta == MetaInit /\ [][MetaNext]_vars

\* ------------------------------------------------------ SignalGridSearch

\* The column names a table or a signal list may hold.  "a__a" is a column
\* name and also the name generate_grid gives the pair ("a", "a").
ColumnNames == {"d", "a", "a__a"}

\* The symbols of stock_dfs, in the order of the dictionary.
Tickers == <<"s1", "s2">>

\* The names given as direction column: one that no combination is named
\* after and one that is the name of a combination.
DirectionNames == {"d", "a__a"}

\* The values of the backend argument: the two the method knows and another.
Backends == {"multiprocessing", "joblib", "threading"}

\* The values of the n_jobs argument: -1, the rejected 0, and 1..MaxJobs.
JobsArgs == -1..MaxJobs

\* The columns of n bars a table holds: 0 at bar 0, which combine_signals
\* never reads, and one value of Ternary on the later bars.
GridColumns(n) == {[k \in 1..n |-> IF k = 1 THEN 0 ELSE v] : v \in Ternary}

\* The tables of n bars: any set of the column names, each with a column.
GridTables(n) ==
    UNION {[cols -> GridColumns(n)] : cols \in SUBSET ColumnNames}

\* The lists of at most MaxSignals names, repetitions included.
SignalLists == UNION {[1..m -> ColumnNames] : m \in 0..MaxSignals}

\* _validate_signals: the ValueError it raises, or "passed".
\* This variant leaves out the check of the direction column against the
\* signal list.
ValidateSignalsSkipsDirection(columns, signals, direction) ==
    IF direction \notin columns
    THEN "direction column not found"
    ELSE IF \E k \in 1..Len(signals) : signals[k] \notin columns
    THEN "signal columns missing"
    ELSE "passed"

\* _validate_signals: the ValueError it raises, or "passed".
ValidateSignals(columns, signals, direction) ==
    IF direction \notin columns
    THEN "direction column not found"
    ELSE IF \E k \in 1..Len(signals) : signals[k] \notin columns
    THEN "signal columns missing"
    ELSE IF \E k \in 1..Len(signals) : signals[k] = direction
    THEN "direction column in available_signals"
    ELSE "passed"

\* The dictionary generate_grid appends for one pair.
Combination(entry_sig, exit_sig) ==
    [entry |-> entry_sig, exit |-> exit_sig,
     name |-> entry_sig \o "__" \o exit_sig]

\* `for exit_sig in signals`, after k iterations, for one entry_sig.
RECURSIVE ExitLoop(_, _, _)
ExitLoop(signals, entry_sig, k) ==
    IF k = 0 THEN << >>
    ELSE Append(ExitLoop(signals, entry_sig, k - 1),
                Combination(entry_sig, signals[k]))

\* `for entry_sig in signals`, after k iterations.
RECURSIVE EntryLoop(_, _)
EntryLoop(signals, k) ==
    IF k = 0 THEN << >>
    ELSE EntryLoop(signals, k - 1)
         \o ExitLoop(signals, signals[k], Len(signals))

\* A grid without the pairs of a signal with itself.
GenerateGridDistinctPairs(signals) ==
    SelectSeq(EntryLoop(signals, Len(signals)),
              LAMBDA combo : combo.entry # combo.exit)

\* generate_grid()
GenerateGrid(signals) == EntryLoop(signals, Len(signals))

\* df[name] = col
Store(tbl, name, col) ==
    [c \in DOMAIN tbl \cup {name} |-> IF c = name THEN col ELSE tbl[c]]

\* The column combine_signals reads under a name.  Line 967 has set
\* df[output_col] to 0 before the loop, and the loop writes bar i only after
\* it has read bar i: a column read under the output name reads 0.  A column
\* the table lacks is only asked for when the loop has no iteration.
ReadColumn(tbl, n, name, output_col) ==
    IF name = output_col \/ name \notin DOMAIN tbl
    THEN [k \in 1..n |-> 0]
    ELSE tbl[name]

\* The names among direction, entry and exit, in the order the loop reads
\* them, that df.at cannot find.
MissingColumns(tbl, combo, direction) ==
    SelectSeq(<<direction, combo.entry, combo.exit>>,
              LAMBDA c : c # combo.name /\ c \notin DOMAIN tbl)

\* Processing the combination raises: the first iteration of the loop of
\* combine_signals asks df.at for a column the table lacks (KeyError).
Raises(tbl, n, combo, direction) ==
    n >= 2 /\ MissingColumns(tbl, combo, direction) # << >>

\* str(e) of that KeyError
ErrorOf(tbl, combo, direction) ==
    "'" \o Head(MissingColumns(tbl, combo, direction)) \o "'"

\* df[output_col][0 .. k-1] after combine_signals
RECURSIVE CombinedColumn(_, _, _, _, _, _)
CombinedColumn(direction, entry, exit_signal, flips, strict, k) ==
    IF k = 0 THEN << >>
    ELSE IF k = 1 THEN <<0>>
    ELSE LET before ==
                 CombinedColumn(direction, entry, exit_signal, flips, strict,
                                k - 1)
         IN Append(before,
                   NextPosition(before[k - 1], direction[k], entry[k],
                                exit_signal[k], flips, strict))

\* combiner.combine_signals(df_test, output_col=combo['name'], ...)[output_col]
CombineSignalsOn(tbl, n, combo, direction, flips, strict) ==
    CombinedColumn(ReadColumn(tbl, n, direction, combo.name),
                   ReadColumn(tbl, n, combo.entry, combo.name),
                   ReadColumn(tbl, n, combo.exit, combo.name),
                   flips, strict, n)

\* df['trade_type'] after add_signal_metadata
TradeTypes(col) ==
    [k \in 1..Len(col) |->
        IF k = 1 THEN "hold" ELSE TradeTypeOf(col[k - 1], col[k])]

\* The keys of a result record that name the combination.
CombinationKeys(combo, direction) ==
    [combination_name |-> combo.name,
     entry_signal |-> combo.entry,
     exit_signal |-> combo.exit,
     direction_signal |-> direction,
     output_column |-> combo.name]

\* The statistics of a result record, taken from the summary s.
TradeStatistics(s) ==
    [total_trades |-> s.total_entries,
     long_trades |-> s.entry_long_count,
     short_trades |-> s.entry_short_count,
     long_to_short_flips |-> s.flip_long_to_short_count,
     short_to_long_flips |-> s.flip_short_to_long_count,
     long_bars |-> s.long_bars,
     short_bars |-> s.short_bars,
     flat_bars |-> s.flat_bars,
     long_pct |-> s.long_pct,
     short_pct |-> s.short_pct,
     flat_pct |-> s.flat_pct,
     avg_bars_per_long_trade |-> s.avg_bars_per_long_trade,
     avg_bars_per_short_trade |-> s.avg_bars_per_short_trade]

\* The statistics of the record of a combination that raised.
ZeroStatistics ==
    [total_trades |-> 0, long_trades |-> 0, short_trades |-> 0,
     long_to_short_flips |-> 0, short_to_long_flips |-> 0,
     long_bars |-> 0, short_bars |-> 0, flat_bars |-> 0,
     long_pct |-> Zero, short_pct |-> Zero, flat_pct |-> Zero,
     avg_bars_per_long_trade |-> Zero, avg_bars_per_short_trade |-> Zero]

\* The statistics of the combined-signal column out.
StatisticsOf(out) == TradeStatistics(SummaryOf(out, TradeTypes(out)))

\* The record run_grid_search appends in its try branch.  error is None,
\* written << >>; a message m is written <<m>>.
SuccessRecord(combo, direction, out) ==
    CombinationKeys(combo, direction) @@ StatisticsOf(out)
        @@ [success |-> TRUE, error |-> << >>]

\* The record run_grid_search appends in its except branch.
FailureRecord(combo, direction, message) ==
    CombinationKeys(combo, direction) @@ ZeroStatistics
        @@ [success |-> FALSE, error |-> <<message>>]

\* One iteration of the loop of run_grid_search that stores the column of a
\* combination that raised as well (a column of zeros).
SequentialStepStoresFailure(tbl, n, combo, direction, flips, strict) ==
    IF Raises(tbl, n, combo, direction)
    THEN [df |-> Store(tbl, combo.name, [k \in 1..n |-> 0]),
          record |-> FailureRecord(combo, direction,
                                   ErrorOf(tbl, combo, direction))]
    ELSE LET out == CombineSignalsOn(tbl, n, combo, direction, flips, strict)
         IN [df |-> Store(tbl, combo.name, out),
             record |-> SuccessRecord(combo, direction, out)]

\* One iteration of the loop of run_grid_search on the working table tbl:
\* the working table it leaves and the record it appends.
SequentialStep(tbl, n, combo, direction, flips, strict) ==
    IF Raises(tbl, n, combo, direction)
    THEN [df |-> tbl,
          record |-> FailureRecord(combo, direction,
                                   ErrorOf(tbl, combo, direction))]
    ELSE LET out == CombineSignalsOn(tbl, n, combo, direction, flips, strict)
         IN [df |-> Store(tbl, combo.name, out),
             record |-> SuccessRecord(combo, direction, out)]

\* The loop of run_grid_search after k iterations, started on the working
\* table tbl: the working table and the list results.
RECURSIVE SequentialRun(_, _, _, _, _, _, _)
SequentialRun(tbl, n, g, direction, flips, strict, k) ==
    IF k = 0 THEN [df |-> tbl, results |-> << >>]
    ELSE LET before ==
                 SequentialRun(tbl, n, g, direction, flips, strict, k - 1)
             step ==
                 SequentialStep(before.df, n, g[k], direction, flips, strict)
         IN [df |-> step.df, results |-> Append(before.results, step.record)]

\* _process_single_combination(combo, df, ...): the record the worker
\* returns.  combined_signal is None, written << >>, or the column col,
\* written <<col>>.  The class the worker imports from algoshort.combiner is
\* taken to be the HybridSignalCombiner of this module.
ProcessSingleCombination(combo, tbl, n, direction, flips, strict) ==
    IF Raises(tbl, n, combo, direction)
    THEN FailureRecord(combo, direction, ErrorOf(tbl, combo, direction))
             @@ [combined_signal |-> << >>]
    ELSE LET out == CombineSignalsOn(tbl, n, combo, direction, flips, strict)
         IN SuccessRecord(combo, direction, out)
                @@ [combined_signal |-> <<out>>]

\* _process_stock_all_combinations: the records of one symbol, each tagged
\* with the ticker.
ProcessStockAllCombinations(ticker, tbl, n, g, direction, flips, strict) ==
    [k \in 1..Len(g) |->
        ProcessSingleCombination(g[k], tbl, n, direction, flips, strict)
            @@ [ticker |-> ticker]]

\* del result['combined_signal'] / result.pop('combined_signal', None)
WithoutCombinedSignal(rec) ==
    [f \in DOMAIN rec \ {"combined_signal"} |-> rec[f]]

\* The loop that adds the combined signals of the first k records to tbl.
RECURSIVE MergeColumns(_, _, _)
MergeColumns(tbl, recs, k) ==
    IF k = 0 THEN tbl
    ELSE LET sofar == MergeColumns(tbl, recs, k - 1)
             rec == recs[k]
         IN IF rec.success /\ rec.combined_signal # << >>
            THEN Store(sofar, rec.output_column, rec.combined_signal[1])
            ELSE sofar

\* A resolution of n_jobs that takes every core whatever n_jobs is.
ResolveJobsAllCores(n_jobs, cores) == cores

\* n_jobs after `if n_jobs == -1: n_jobs = cpu_count()`
ResolveJobs(n_jobs, cores) == IF n_jobs = -1 THEN cores ELSE n_jobs

\* `elif n_jobs < 1: raise ValueError`
JobsRejected(n_jobs) == n_jobs # -1 /\ n_jobs < 1

\* min(n_jobs, n_stocks)
EffectiveJobs(n_jobs, n_stocks) ==
    IF n_jobs < n_stocks THEN n_jobs ELSE n_stocks

\* The branch run_grid_search_parallel takes after generate_grid.
CombinationsPath(n_jobs, cores, backend) ==
    IF JobsRejected(n_jobs) THEN "ValueError"
    ELSE IF ResolveJobs(n_jobs, cores) = 1 THEN "sequential"
    ELSE IF backend = "multiprocessing" THEN "multiprocessing"
    ELSE IF backend = "joblib" THEN "joblib"
    ELSE "ValueError"

\* The branch run_grid_search_parallel_over_stocks takes for a non-empty
\* stock_dfs and a non-empty grid.
OverStocksPath(n_jobs, cores, n_stocks) ==
    IF JobsRejected(n_jobs) THEN "ValueError"
    ELSE IF EffectiveJobs(ResolveJobs(n_jobs, cores), n_stocks) = 1
    THEN "sequential"
    ELSE "pool"

\* batch_size = max(1, len(grid) // n_jobs)
BatchSize(n_combos, n_jobs) ==
    IF n_combos \div n_jobs > 1 THEN n_combos \div n_jobs ELSE 1

\* The chunks of batch_size tasks that imap hands to the workers.
Chunks(n_combos, size) == {c \in 1..n_combos : (c - 1) * size < n_combos}

\* The grid indexes of chunk c.
ChunkIndexes(c, n_combos, size) ==
    {k \in 1..n_combos : (c - 1) * size < k /\ k <= c * size}

\* A table of the columns of tbl with other values: every value negated.
OtherStockTable(tbl) ==
    [c \in DOMAIN tbl |-> [k \in 1..Len(tbl[c]) |-> -tbl[c][k]]]

\* stock_dfs of the first k tickers: the first ticker holds the table tbl,
\* the others a table of the same columns and other values.
StockTables(k, tbl) ==
    [t \in {Tickers[j] : j \in 1..k} |->
        IF t = Tickers[1] THEN tbl ELSE OtherStockTable(tbl)]

\* SignalGridSearch(df, available_signals, direction_col)
Construct ==
    /\ g_pc = "new"
    /\ self_df' = df_arg
    /\ IF ValidateSignals(DOMAIN df_arg, available_signals, direction_col)
          = "passed"
       THEN g_pc' = "ready" /\ g_error' = "none"
       ELSE g_pc' = "raised" /\ g_error' = "ValueError"
    /\ g_method' = "__init__"
    /\ UNCHANGED <<n_rows, df_arg, available_signals, direction_col, grid,
                   results, run_flips, run_strict, batch_size, pending,
                   worker_results, stock_dfs, stock_results, stocks_mode,
                   stocks_pending, add_signals_to_dfs>>
    /\ UNCHANGED <<combinerVars, df_out, metaVars, dispatchVars, sizingVars>>

\* The caller appends a name to the list it gave the constructor:
\* self.available_signals is that list, not a copy of it, and the name is
\* not validated.  Only names the table lacks are appended here; the lists
\* of names it holds come from the constructor.
CallerAppendsSignal ==
    /\ g_pc = "ready"
    /\ Len(available_signals) < MaxSignals
    /\ \E c \in ColumnNames \ DOMAIN self_df :
          available_signals' = Append(available_signals, c)
    /\ UNCHANGED <<n_rows, df_arg, self_df, direction_col, g_pc, g_error,
                   g_method, grid, results, run_flips, run_strict, batch_size,
                   pending, worker_results, stock_dfs, stock_results,
                   stocks_mode, stocks_pending, add_signals_to_dfs>>
    /\ UNCHANGED <<combinerVars, df_out, metaVars, dispatchVars, sizingVars>>

\* run_grid_search up to its loop, for the method the caller called.
\* allow_flips is left at its default: no column of GridColumns makes a
\* combination depend on it.
EnterSequential(strict, method) ==
    /\ grid' = GenerateGrid(available_signals)
    /\ results' = << >>
    /\ run_strict' = strict
    /\ g_pc' = "sequential"
    /\ g_method' = method
    /\ UNCHANGED <<n_rows, df_arg, self_df, available_signals, direction_col,
                   g_error, run_flips, batch_size, pending, worker_results,
                   stock_dfs, stock_results, stocks_mode, stocks_pending,
                   add_signals_to_dfs>>

\* A call that raises ValueError after it has computed the grid g.
RaiseValueError(method, g) ==
    /\ grid' = g
    /\ g_pc' = "raised"
    /\ g_error' = "ValueError"
    /\ g_method' = method
    /\ UNCHANGED <<n_rows, df_arg, self_df, available_signals, direction_col,
                   results, run_flips, run_strict, batch_size, pending,
                   worker_results, stock_results, stocks_mode, stocks_pending,
                   add_signals_to_dfs>>

\* run_grid_search(allow_flips, require_regime_alignment)
RunGridSearch ==
    /\ g_pc = "ready"
    /\ \E strict \in BOOLEAN : EnterSequential(strict, "run_grid_search")
    /\ UNCHANGED <<combinerVars, df_out, metaVars, dispatchVars, sizingVars>>

\* One iteration of `for combo in grid` of run_grid_search.
SequentialIteration ==
    /\ g_pc = "sequential"
    /\ Len(results) < Len(grid)
    /\ LET step == SequentialStep(self_df, n_rows, grid[Len(results) + 1],
                                  direction_col, run_flips, run_strict)
       IN /\ self_df' = step.df
          /\ results' = Append(results, step.record)
    /\ UNCHANGED <<n_rows, df_arg, available_signals, direction_col, g_pc,
                   g_error, g_method, grid, run_flips, run_strict, batch_size,
                   pending, worker_results, stock_dfs, stock_results,
                   stocks_mode, stocks_pending, add_signals_to_dfs>>
    /\ UNCHANGED <<combinerVars, df_out, metaVars, dispatchVars, sizingVars>>

\* The end of a grid search over self.df: self.results is a frame of the
\* records, and self.results['success'] raises KeyError when there are none.
Finish ==
    IF Len(grid) = 0
    THEN g_pc' = "raised" /\ g_error' = "KeyError"
    ELSE g_pc' = "done" /\ g_error' = "none"

\* run_grid_search after its loop.
SequentialReturn ==
    /\ g_pc = "sequential"
    /\ Len(results) = Len(grid)
    /\ Finish
    /\ UNCHANGED <<n_rows, df_arg, self_df, available_signals, direction_col,
                   g_method, grid, results, run_flips, run_strict, batch_size,
                   pending, worker_results, stock_dfs, stock_results,
                   stocks_mode, stocks_pending, add_signals_to_dfs>>
    /\ UNCHANGED <<combinerVars, df_out, metaVars, dispatchVars, sizingVars>>

\* run_grid_search_parallel up to the hand-over of the grid to the workers
\* (batch_size left at None); with one job it calls run_grid_search.
RunGridSearchParallel ==
    /\ g_pc = "ready"
    /\ \E n_jobs \in JobsArgs, cores \in 1..MaxCores, backend \in Backends,
          strict \in BOOLEAN :
          LET g == GenerateGrid(available_signals)
              path == CombinationsPath(n_jobs, cores, backend)
              size == BatchSize(Len(g), ResolveJobs(n_jobs, cores))
          IN IF path = "ValueError"
             THEN RaiseValueError("run_grid_search_parallel", g)
                  /\ UNCHANGED stock_dfs
             ELSE IF path = "sequential"
             THEN EnterSequential(strict, "run_grid_search_parallel")
             ELSE /\ grid' = g
                  /\ results' = << >>
                  /\ run_strict' = strict
                  /\ batch_size' = size
                  /\ pending' = Chunks(Len(g), size)
                  /\ worker_results' = << >>
                  /\ g_pc' = "workers"
                  /\ g_method' = "run_grid_search_parallel"
                  /\ UNCHANGED <<n_rows, df_arg, self_df, available_signals,
                                 direction_col, g_error, run_flips, stock_dfs,
                                 stock_results, stocks_mode, stocks_pending,
                                 add_signals_to_dfs>>
    /\ UNCHANGED <<combinerVars, df_out, metaVars, dispatchVars, sizingVars>>

\* A worker returns the records of one chunk, each computed on its copy of
\* self.df.
WorkerReturns ==
    /\ g_pc = "workers"
    /\ \E c \in pending :
          /\ pending' = pending \ {c}
          /\ worker_results' =
                [k \in DOMAIN worker_results
                       \cup ChunkIndexes(c, Len(grid), batch_size) |->
                    IF k \in DOMAIN worker_results THEN worker_results[k]
                    ELSE ProcessSingleCombination(grid[k], self_df, n_rows,
                                                  direction_col, run_flips,
                                                  run_strict)]
    /\ UNCHANGED <<n_rows, df_arg, self_df, available_signals, direction_col,
                   g_pc, g_error, g_method, grid, results, run_flips,
                   run_strict, batch_size, stock_dfs, stock_results,
                   stocks_mode, stocks_pending, add_signals_to_dfs>>
    /\ UNCHANGED <<combinerVars, df_out, metaVars, dispatchVars, sizingVars>>

\* run_grid_search_parallel once imap (or Parallel) has delivered every
\* record, in grid order: the columns are added to self.df, combined_signal
\* is deleted from the records, self.results is built.
CollectResults ==
    /\ g_pc = "workers"
    /\ pending = {}
    /\ self_df' = MergeColumns(self_df, worker_results, Len(grid))
    /\ results' = [k \in 1..Len(grid) |->
                      WithoutCombinedSignal(worker_results[k])]
    /\ Finish
    /\ UNCHANGED <<n_rows, df_arg, available_signals, direction_col, g_method,
                   grid, run_flips, run_strict, batch_size, pending,
                   worker_results, stock_dfs, stock_results, stocks_mode,
                   stocks_pending, add_signals_to_dfs>>
    /\ UNCHANGED <<combinerVars, df_out, metaVars, dispatchVars, sizingVars>>

\* run_grid_search_parallel_over_stocks up to the choice of its path.  Every
\* symbol's table has the columns of the one the searcher was built from.
RunGridSearchOverStocks ==
    /\ g_pc = "ready"
    /\ \E n_stocks \in 0..Len(Tickers), n_jobs \in JobsArgs,
          cores \in 1..MaxCores, strict \in BOOLEAN, add \in BOOLEAN :
          LET g == GenerateGrid(available_signals)
              path == OverStocksPath(n_jobs, cores, n_stocks)
              method == "run_grid_search_parallel_over_stocks"
          IN /\ stock_dfs' = StockTables(n_stocks, df_arg)
             /\ IF n_stocks = 0
                THEN RaiseValueError(method, grid)
                ELSE IF g = << >> \/ path = "ValueError"
                THEN RaiseValueError(method, g)
                ELSE /\ grid' = g
                     /\ run_strict' = strict
                     /\ stock_results' = << >>
                     /\ stocks_mode' = path
                     /\ stocks_pending' = {Tickers[j] : j \in 1..n_stocks}
                     /\ add_signals_to_dfs' = add
                     /\ g_pc' = "stocks"
                     /\ g_method' = method
                     /\ UNCHANGED <<n_rows, df_arg, self_df,
                                    available_signals, direction_col, g_error,
                                    results, run_flips, batch_size, pending,
                                    worker_results>>
    /\ UNCHANGED <<combinerVars, df_out, metaVars, dispatchVars, sizingVars>>

\* The ticker the sequential loop over stock_dfs.items() processes next.
NextTicker ==
    CHOOSE t \in stocks_pending :
        \A j, k \in 1..Len(Tickers) :
            (Tickers[j] = t /\ Tickers[k] \in stocks_pending) => j <= k

\* The records of one symbol arrive (from the loop on the sequential path,
\* from imap_unordered on the pool path) and _store files them.
StockReturns ==
    /\ g_pc = "stocks"
    /\ \E t \in stocks_pending :
          /\ stocks_mode = "sequential" => t = NextTicker
          /\ LET recs == ProcessStockAllCombinations(
                             t, stock_dfs[t], n_rows, grid, direction_col,
                             run_flips, run_strict)
             IN /\ stock_dfs' =
                      IF add_signals_to_dfs
                      THEN [stock_dfs EXCEPT
                               ![t] = MergeColumns(@, recs, Len(recs))]
                      ELSE stock_dfs
                /\ stock_results' =
                      [s \in DOMAIN stock_results \cup {t} |->
                          IF s = t
                          THEN [k \in 1..Len(recs) |->
                                   WithoutCombinedSignal(recs[k])]
                          ELSE stock_results[s]]
          /\ stocks_pending' = stocks_pending \ {t}
    /\ UNCHANGED <<n_rows, df_arg, self_df, available_signals, direction_col,
                   g_pc, g_error, g_method, grid, results, run_flips,
                   run_strict, batch_size, pending, worker_results,
                   stocks_mode, add_signals_to_dfs>>
    /\ UNCHANGED <<combinerVars, df_out, metaVars, dispatchVars, sizingVars>>

\* run_grid_search_parallel_over_stocks returns stock_results.
OverStocksReturn ==
    /\ g_pc = "stocks"
    /\ stocks_pending = {}
    /\ g_pc' = "done"
    /\ UNCHANGED <<n_rows, df_arg, self_df, available_signals, direction_col,
                   g_error, g_method, grid, results, run_flips, run_strict,
                   batch_size, pending, worker_results, stock_dfs,
                   stock_results, stocks_mode, stocks_pending,
                   add_signals_to_dfs>>
    /\ UNCHANGED <<combinerVars, df_out, metaVars, dispatchVars, sizingVars>>

\* The arguments of the constructor: a table (empty, of one bar, which the
\* loop of combine_signals never enters, or of MaxGridBars bars), a list of
\* names and the name of the direction column.
GridInit ==
    /\ n_rows \in {0, 1, MaxGridBars}
    /\ df_arg \in GridTables(n_rows)
    /\ self_df = << >>
    /\ available_signals \in SignalLists
    /\ direction_col \in DirectionNames
    /\ g_pc = "new"
    /\ g_error = "none"
    /\ g_method = "none"
    /\ grid = << >>
    /\ results = << >>
    /\ run_flips = TRUE
    /\ run_strict = TRUE
    /\ batch_size = 0
    /\ pending = {}
    /\ worker_results = << >>
    /\ stock_dfs = << >>
    /\ stock_results = << >>
    /\ stocks_mode = "none"
    /\ stocks_pending = {}
    /\ add_signals_to_dfs = FALSE
    /\ CombinerAtRest
    /\ df_out = << >>
    /\ MetaAtRest
    /\ DispatchAtRest
    /\ SizingAtRest

GridNext ==
    \/ Construct
    \/ CallerAppendsSignal
    \/ RunGridSearch
    \/ SequentialIteration
    \/ SequentialReturn
    \/ RunGridSearchParallel
    \/ WorkerReturns
    \/ CollectResults
    \/ RunGridSearchOverStocks
    \/ StockReturns
    \/ OverStocksReturn

SpecGrid == GridInit /\ [][GridNext]_vars

\* ------------------------------------------------------ parallel dispatch

\* The four parallel entry points, seen from their units of work only: the
\* arguments that decide the path, the path taken, the pool or joblib
\* executor created, and the units as they complete.

\* The branch run_position_sizing_parallel_over_stocks takes for a non-empty
\* stock_dfs and a non-empty signal list (the same text as in
\* run_grid_search_parallel_over_stocks).
SizingOverStocksPath(n_jobs, cores, n_stocks) ==
    IF JobsRejected(n_jobs) THEN "ValueError"
    ELSE IF EffectiveJobs(ResolveJobs(n_jobs, cores), n_stocks) = 1
    THEN "sequential"
    ELSE "pool"

\* The call raises the exception named before any unit is processed.
DispatchRaises(strategy, n_jobs, n_units, exception) ==
    /\ d_strategy' = strategy
    /\ d_n_jobs' = n_jobs
    /\ d_units' = n_units
    /\ d_pc' = "raised"
    /\ d_path' = "none"
    /\ d_error' = exception
    /\ d_workers' = 0
    /\ d_pending' = {}
    /\ UNCHANGED d_cores

\* The call starts on the path named; workers is the number of processes it
\* asks of the pool or executor it creates, 0 when it creates none.
DispatchStarts(strategy, n_jobs, n_units, path, workers) ==
    /\ d_strategy' = strategy
    /\ d_n_jobs' = n_jobs
    /\ d_units' = n_units
    /\ d_pc' = "running"
    /\ d_path' = path
    /\ d_error' = "none"
    /\ d_workers' = workers
    /\ d_pending' = 1..n_units
    /\ UNCHANGED d_cores

\* run_grid_search_parallel on a grid of n_combos combinations.
CallGridSearchParallel ==
    /\ d_pc = "idle"
    /\ \E n_jobs \in JobsArgs, n_combos \in 0..MaxUnits, backend \in Backends :
          LET path == CombinationsPath(n_jobs, d_cores, backend)
              strategy == "run_grid_search_parallel"
          IN IF path = "ValueError"
             THEN DispatchRaises(strategy, n_jobs, n_combos, "ValueError")
             ELSE IF path = "sequential"
             THEN DispatchStarts(strategy, n_jobs, n_combos, path, 0)
             ELSE DispatchStarts(strategy, n_jobs, n_combos, path,
                                 ResolveJobs(n_jobs, d_cores))
    /\ UNCHANGED <<combinerVars, df_out, metaVars, gridVars, sizingVars>>

\* run_grid_search_parallel_over_stocks on n_stocks symbols.
CallGridSearchOverStocks ==
    /\ d_pc = "idle"
    /\ \E n_jobs \in JobsArgs, n_stocks \in 0..MaxUnits,
          grid_empty \in BOOLEAN :
          LET path == OverStocksPath(n_jobs, d_cores, n_stocks)
              strategy == "run_grid_search_parallel_over_stocks"
          IN IF n_stocks = 0 \/ grid_empty \/ path = "ValueError"
             THEN DispatchRaises(strategy, n_jobs, n_stocks, "ValueError")
             ELSE IF path = "sequential"
             THEN DispatchStarts(strategy, n_jobs, n_stocks, path, 0)
             ELSE DispatchStarts(strategy, n_jobs, n_stocks, path,
                                 EffectiveJobs(ResolveJobs(n_jobs, d_cores),
                                               n_stocks))
    /\ UNCHANGED <<combinerVars, df_out, metaVars, gridVars, sizingVars>>

\* run_position_sizing_parallel on n_signals signals, of which n_tasks have
\* their change, stop-loss and close columns in the table.  n_jobs goes to
\* joblib's Parallel as it is; Parallel rejects n_jobs = 0 with ValueError.
CallPositionSizingParallel ==
    /\ d_pc = "idle"
    /\ \E n_jobs \in JobsArgs, n_signals \in 0..MaxUnits,
          signals_present \in BOOLEAN :
          \E n_tasks \in 0..n_signals :
             LET strategy == "run_position_sizing_parallel"
             IN IF n_signals = 0 \/ ~signals_present
                THEN DispatchRaises(strategy, n_jobs, n_signals, "ValueError")
                ELSE IF n_tasks = 0
                THEN DispatchRaises(strategy, n_jobs, n_tasks, "RuntimeError")
                ELSE IF n_jobs = 0
                THEN DispatchRaises(strategy, n_jobs, n_tasks, "ValueError")
                ELSE DispatchStarts(strategy, n_jobs, n_tasks, "joblib",
                                    n_jobs)
    /\ UNCHANGED <<combinerVars, df_out, metaVars, gridVars, sizingVars>>

\* run_position_sizing_parallel_over_stocks on n_stocks symbols.
CallPositionSizingOverStocks ==
    /\ d_pc = "idle"
    /\ \E n_jobs \in JobsArgs, n_stocks \in 0..MaxUnits,
          signals_empty \in BOOLEAN :
          LET path == SizingOverStocksPath(n_jobs, d_cores, n_stocks)
              strategy == "run_position_sizing_parallel_over_stocks"
          IN IF n_stocks = 0 \/ signals_empty \/ path = "ValueError"
             THEN DispatchRaises(strategy, n_jobs, n_stocks, "ValueError")
             ELSE IF path = "sequential"
             THEN DispatchStarts(strategy, n_jobs, n_stocks, path, 0)
             ELSE DispatchStarts(strategy, n_jobs, n_stocks, path,
                                 EffectiveJobs(ResolveJobs(n_jobs, d_cores),
                                               n_stocks))
    /\ UNCHANGED <<combinerVars, df_out, metaVars, gridVars, sizingVars>>

\* One unit of work completes: the next one of the loop on the sequential
\* path, any outstanding one under a pool or an executor.
UnitCompletes ==
    /\ d_pc = "running"
    /\ \E u \in d_pending :
          /\ d_path = "sequential" => \A v \in d_pending : u <= v
          /\ d_pending' = d_pending \ {u}
    /\ UNCHANGED <<d_strategy, d_n_jobs, d_cores, d_units, d_pc, d_path,
                   d_error, d_workers>>
    /\ UNCHANGED <<combinerVars, df_out, metaVars, gridVars, sizingVars>>

\* The entry point returns once every unit has completed.  A grid search
\* over self.df with no combination raises KeyError on its summary line.
DispatchReturn ==
    /\ d_pc = "running"
    /\ d_pending = {}
    /\ IF d_strategy = "run_grid_search_parallel" /\ d_units = 0
       THEN d_pc' = "raised" /\ d_error' = "KeyError"
       ELSE d_pc' = "done" /\ d_error' = "none"
    /\ UNCHANGED <<d_strategy, d_n_jobs, d_cores, d_units, d_path, d_workers,
                   d_pending>>
    /\ UNCHANGED <<combinerVars, df_out, metaVars, gridVars, sizingVars>>

\* The caller is about to call one entry point on a machine of d_cores
\* cores.
DispatchInit ==
    /\ d_strategy = "none"
    /\ d_n_jobs = 1
    /\ d_cores \in 1..MaxCores
    /\ d_units = 0
    /\ d_pc = "idle"
    /\ d_path = "none"
    /\ d_error = "none"
    /\ d_workers = 0
    /\ d_pending = {}
    /\ CombinerAtRest
    /\ df_out = << >>
    /\ MetaAtRest
    /\ GridAtRest
    /\ SizingAtRest

DispatchNext ==
    \/ CallGridSearchParallel
    \/ CallGridSearchOverStocks
    \/ CallPositionSizingParallel
    \/ CallPositionSizingOverStocks
    \/ UnitCompletes
    \/ DispatchReturn

SpecDispatch == DispatchInit /\ [][DispatchNext]_vars

\* -------------------------------------------------------- exact arithmetic

\* The floating-point values of position sizing are modelled by exact
\* quotients <<a, b>> with b > 0, rounding errors left out.  <<0, 0>> is a
\* value that is not a finite number: NaN, or the infinity a division by
\* zero leaves in a numpy value.
NaN == Frac(0, 0)

\* math.isfinite(q) is false
IsNaN(q) == q[2] = 0

\* The whole number n as a quotient.
Num(n) == Frac(n, 1)

\* The number 1 as a quotient.
One == Frac(1, 1)

\* abs(x) of a whole number
Abs(x) == IF x < 0 THEN -x ELSE x

\* Greatest common divisor of two naturals.
RECURSIVE Gcd(_, _)
Gcd(a, b) == IF b = 0 THEN a ELSE Gcd(b, a % b)

\* The quotient q (q[2] # 0) in lowest terms with a positive denominator.
Reduce(q) ==
    LET s == IF q[2] < 0 THEN -1 ELSE 1
        g == Gcd(Abs(q[1]), Abs(q[2]))
    IN Frac((s * q[1]) \div g, (s * q[2]) \div g)

\* p + q
Add(p, q) == Reduce(Frac(p[1] * q[2] + q[1] * p[2], p[2] * q[2]))

\* p - q
Sub(p, q) == Add(p, Frac(-q[1], q[2]))

\* p * q
Mul(p, q) == Reduce(Frac(p[1] * q[1], p[2] * q[2]))

\* p / q, for q # 0
Div(p, q) == Reduce(Frac(p[1] * q[2], p[2] * q[1]))

\* abs(q)
AbsQ(q) == Frac(Abs(q[1]), q[2])

\* p < q, compared by whole parts and then by the inverted fractional parts,
\* so that no product of a numerator and a denominator is formed.
RECURSIVE Less(_, _)
Less(p, q) ==
    LET fp == p[1] \div p[2]
        fq == q[1] \div q[2]
        rp == p[1] % p[2]
        rq == q[1] % q[2]
    IN IF fp # fq THEN fp < fq
       ELSE IF rq = 0 THEN FALSE
       ELSE IF rp = 0 THEN TRUE
       ELSE Less(Frac(q[2], rq), Frac(p[2], rp))

\* p <= q
Leq(p, q) == ~Less(q, p)

\* math.floor(q), the // of Python
Floor(q) == q[1] \div q[2]

\* int(q): truncation towards zero
Trunc(q) == IF q[1] >= 0 THEN q[1] \div q[2] ELSE -((-q[1]) \div q[2])

\* q ** k for a natural k
RECURSIVE Pow(_, _)
Pow(q, k) == IF k = 0 THEN One ELSE Mul(q, Pow(q, k - 1))

\* The number base + slope * x ** pw, kept unevaluated because x ** pw is
\* irrational for most quotients x and pw.
Real(base, slope, x, pw) == [base |-> base, slope |-> slope, x |-> x, pw |-> pw]

\* The quotient q as such a number.
Rational(q) == Real(q, Zero, One, One)

\* x ** pw is the quotient x itself, or is not needed.
RealIsRational(r) ==
    r.slope[1] = 0 \/ r.pw = One \/ r.x = Zero \/ r.x = One

\* base + slope * x, the value of r when RealIsRational(r).
RationalValue(r) == Add(r.base, Mul(r.slope, r.x))

\* n <= scale * (base + slope * x ** (a / b)), for scale > 0, slope > 0 and
\* x >= 0, decided on quotients: with L = n / scale - base, either L <= 0 or
\* L ** b <= slope ** b * x ** a.
AtMost(n, scale, r) ==
    LET L == Sub(Div(Num(n), scale), r.base)
    IN \/ Leq(L, Zero)
       \/ Leq(Pow(L, r.pw[2]), Mul(Pow(r.slope, r.pw[2]), Pow(r.x, r.pw[1])))

\* int(scale * r) for scale >= 0.  A value r that is not a quotient lies in
\* [mn, mx] with mn < mx there (calculate_shares is its only source), so the
\* product is not negative and int() is the floor.
TruncScaled(scale, r) ==
    IF RealIsRational(r)
    THEN Trunc(Mul(scale, RationalValue(r)))
    ELSE IF scale[1] = 0
    THEN 0
    ELSE LET top == IF Leq(r.x, One) THEN One ELSE Pow(r.x, r.pw[1])
             lo == Floor(Mul(scale, r.base))
             hi == Floor(Mul(scale, Add(r.base, Mul(r.slope, top))))
         IN CHOOSE n \in lo..hi :
                AtMost(n, scale, r) /\ (n = hi \/ ~AtMost(n + 1, scale, r))

\* ---------------------------------------------------------- PositionSizing

\* The names of the four strategies: <prefix>_equity_<name> and
\* <prefix>_shares_<name> are their columns.
Strategies == {"equal", "constant", "concave", "convex"}

\* The strategies with a risk column <prefix>_risk_<name>, and their shape.
RiskStrategies == {"concave", "convex"}

\* 'shape' of the risk_configs of _get_column_names
ShapeOf(strategy) == IF strategy = "concave" THEN -1 ELSE 1

\* span=5 in _calculate_risk_appetites
RiskSpan == 5

\* The checks of PositionSizing.__init__ without the one of mn against mx.
ValidateParametersUnordered(p) ==
    IF Leq(Zero, p.tolerance) THEN "tolerance"
    ELSE IF Leq(p.mn, Zero) \/ Leq(p.mx, Zero) THEN "mn_mx_positive"
    ELSE IF ~(Less(Zero, p.equal_weight) /\ Leq(p.equal_weight, One))
    THEN "equal_weight"
    ELSE IF p.lot <= 0 THEN "lot"
    ELSE IF p.initial_capital <= 0 THEN "initial_capital"
    ELSE "accepted"

\* The first failed check of PositionSizing.__init__, "accepted" if none.
ValidateParameters(p) ==
    IF Leq(Zero, p.tolerance) THEN "tolerance"
    ELSE IF Leq(p.mn, Zero) \/ Leq(p.mx, Zero) THEN "mn_mx_positive"
    ELSE IF Less(p.mx, p.mn) THEN "mn_le_mx"
    ELSE IF ~(Less(Zero, p.equal_weight) /\ Leq(p.equal_weight, One))
    THEN "equal_weight"
    ELSE IF p.lot <= 0 THEN "lot"
    ELSE IF p.initial_capital <= 0 THEN "initial_capital"
    ELSE "accepted"

\* The result of a call: the value returned, or the exception raised.
Returned(v) == [value |-> v, raised |-> "none"]

\* A call that ended in the exception e.
Raised(e) == [value |-> 0, raised |-> e]

\* 1e-8, the least risk per share relative to the price
StopGuard == Frac(1, 100000000)

\* PositionSizing.eqty_risk_shares: px, sl and eqty are quotients, risk is a
\* number kept unevaluated, fx and lot are whole numbers.  Every comparison
\* with NaN is false, and int(NaN) raises ValueError.
EqtyRiskShares(px, sl, eqty, risk_value, fx, lot) ==
    IF ~IsNaN(px) /\ Leq(px, Zero) THEN Returned(0)
    ELSE IF lot <= 0 THEN Returned(0)
    ELSE IF ~IsNaN(eqty) /\ Less(eqty, Zero) THEN Returned(0)
    ELSE IF IsNaN(px) \/ IsNaN(sl) THEN Raised("ValueError")
    ELSE LET risk_per_share == AbsQ(Sub(sl, px))
         IN IF Less(Div(risk_per_share, px), StopGuard) THEN Returned(0)
            ELSE IF IsNaN(eqty) \/ IsNaN(risk_value.base)
            THEN Raised("ValueError")
            ELSE LET budget_scale ==
                         Div(Mul(eqty, Num(IF fx > 0 THEN fx ELSE 1)),
                             Mul(risk_per_share, Num(lot)))
                     num_lots == TruncScaled(budget_scale, risk_value)
                     shs == num_lots * lot
                 IN Returned(IF shs > 0 THEN shs ELSE 0)

\* eqty.expanding().max() at row k
RECURSIVE ExpandingMax(_, _)
ExpandingMax(eqty, k) ==
    IF k = 1
    THEN eqty[1]
    ELSE LET m == ExpandingMax(eqty, k - 1)
         IN IF Less(m, eqty[k]) THEN eqty[k] ELSE m

\* watermark.replace(0, np.nan).ffill().fillna(1) at row k
RECURSIVE Watermark(_, _)
Watermark(eqty, k) ==
    LET m == ExpandingMax(eqty, k)
    IN IF m[1] # 0 THEN m
       ELSE IF k = 1 THEN One
       ELSE Watermark(eqty, k - 1)

\* drawdown = eqty / watermark - 1 at row k
Drawdown(eqty, k) == Sub(Div(eqty[k], Watermark(eqty, k)), One)

\* ddr = 1 - np.minimum(drawdown / tolerance, 1) at row k
Ddr(eqty, tolerance, k) ==
    LET ratio == Div(Drawdown(eqty, k), tolerance)
    IN Sub(One, IF Less(ratio, One) THEN ratio ELSE One)

\* 1 - alpha of ewm(span=span), alpha = 2 / (span + 1)
Decay(span) == Frac(span - 1, span + 1)

\* The weighted sum of ddr up to row k: weight (1 - alpha) ** j for the row
\* j rows back.
RECURSIVE EwmSum(_, _, _, _)
EwmSum(eqty, tolerance, span, k) ==
    IF k = 1
    THEN Ddr(eqty, tolerance, 1)
    ELSE Add(Ddr(eqty, tolerance, k),
             Mul(Decay(span), EwmSum(eqty, tolerance, span, k - 1)))

\* The sum of those weights.
RECURSIVE EwmWeights(_, _)
EwmWeights(span, k) ==
    IF k = 1 THEN One ELSE Add(One, Mul(Decay(span), EwmWeights(span, k - 1)))

\* avg_ddr = ddr.ewm(span=span).mean() at row k
AvgDdr(eqty, tolerance, span, k) ==
    Div(EwmSum(eqty, tolerance, span, k), EwmWeights(span, k))

\* _power of risk_appetite
ShapePower(mn, mx, shape) ==
    IF shape = 1 THEN Div(mx, mn)
    ELSE IF shape = -1 THEN Div(mn, mx)
    ELSE One

\* PositionSizing.risk_appetite: the series risk_appetite, one number
\* mn + (mx - mn) * avg_ddr ** _power per row of eqty.
RiskAppetite(eqty, tolerance, mn, mx, span, shape) ==
    LET tol == IF tolerance[1] = 0 THEN Frac(-1, 10) ELSE tolerance
        lo == IF Leq(mn, Zero) THEN Frac(1, 100) ELSE mn
        hi == IF Leq(mx, Zero) THEN Frac(1, 100) ELSE mx
    IN [k \in 1..Len(eqty) |->
           Real(lo, Sub(hi, lo), AvgDdr(eqty, tol, span, k),
                ShapePower(lo, hi, shape))]

\* _initialize_columns: the equity columns of a table of n bars.
InitialEquity(n, initial_capital) ==
    [s \in Strategies |->
        [k \in 1..n |-> IF k = 1 THEN Num(initial_capital) ELSE Zero]]

\* _initialize_columns: the shares columns.
InitialShares(n) == [s \in Strategies |-> [k \in 1..n |-> Zero]]

\* _initialize_columns: the risk columns.
InitialRisk(n) == [s \in RiskStrategies |-> [k \in 1..n |-> Rational(Zero)]]

\* shares_dict of calculate_shares with shs_eql, shs_fxd, shs_ccv and shs_cvx
\* at their default, as every caller in the repository leaves them.
InitialSharesDict == [s \in Strategies |-> Zero]

\* prev_value + curr_chg, the shares held left out.
UpdateEquityValueOneShare(prev_value, curr_chg, shs) ==
    IF IsNaN(prev_value) \/ IsNaN(shs)
    THEN NaN
    ELSE Add(prev_value, Num(curr_chg))

\* prev_value + curr_chg * shares
UpdateEquityValue(prev_value, curr_chg, shs) ==
    IF IsNaN(prev_value) \/ IsNaN(shs)
    THEN NaN
    ELSE Add(prev_value, Mul(Num(curr_chg), shs))

\* _update_equity_columns at bar i
UpdateEquityColumns(eq, bar, dict, curr_chg) ==
    [s \in Strategies |->
        [eq[s] EXCEPT ![bar + 1] = UpdateEquityValue(eq[s][bar], curr_chg, dict[s])]]

\* _calculate_risk_appetites at bar i: risk_series.iloc[-1] of the series
\* over df[col].iloc[:i], for the concave and the convex curve.
CalculateRiskAppetites(eq, bar, p) ==
    [s \in RiskStrategies |->
        LET risk_series == RiskAppetite(SubSeq(eq[s], 1, bar), p.tolerance,
                                        p.mn, p.mx, RiskSpan, ShapeOf(s))
        IN risk_series[Len(risk_series)]]

\* The cell of the stop-loss column that holds NaN; the other cells hold
\* whole numbers.
NoStop == -1000

\* df.at[i, sl] as a quotient
StopCell(sl_price) == IF sl_price = NoStop THEN NaN ELSE Num(sl_price)

\* abs(px - sl_price) < 1e-10, the factor 1e10 applied in two halves; false
\* for a stop that is NaN.
StopDegenerate(px, sl_price) ==
    /\ sl_price # NoStop
    /\ Less(Mul(AbsQ(Sub(Num(px), Num(sl_price))), Num(100000)),
            Frac(1, 100000))

\* eqty * equal_weight * fx // (px * lot), a number of lots.
EqualWeightSharesInLots(eqty, equal_weight, fx, px, lot) ==
    IF IsNaN(eqty) \/ px * lot = 0
    THEN NaN
    ELSE Num(Floor(Div(Mul(Mul(eqty, equal_weight), Num(fx)),
                       Num(px * lot))))

\* shs_eql of _recalculate_shares: eqty * equal_weight * fx // (px * lot)
\* * lot; the floor division by zero of numpy leaves a value that is not
\* finite.
EqualWeightShares(eqty, equal_weight, fx, px, lot) ==
    IF IsNaN(eqty) \/ px * lot = 0
    THEN NaN
    ELSE Num(Floor(Div(Mul(Mul(eqty, equal_weight), Num(fx)),
                       Num(px * lot))) * lot)

\* The share counts _recalculate_shares computes at bar i: equal weight from
\* the equal-weight equity, the others from eqty_risk_shares at the risk avg
\* and at the two risk values of the bar.
NewShares(tbl, eq, bar, risk_values, p) ==
    LET px == At(tbl.close, bar)
        sl_price == At(tbl.stop_loss, bar)
    IN [s \in Strategies |->
           IF s = "equal"
           THEN EqualWeightShares(eq[s][bar + 1], p.equal_weight, 1, px, p.lot)
           ELSE Num(EqtyRiskShares(
                        Num(px), StopCell(sl_price), eq[s][bar + 1],
                        IF s = "constant" THEN Rational(p.avg)
                                          ELSE risk_values[s],
                        1, p.lot).value)]

\* _recalculate_shares without its two early returns.
RecalculateSharesEveryBar(tbl, eq, bar, risk_values, p) ==
    <<NewShares(tbl, eq, bar, risk_values, p)>>

\* _recalculate_shares at bar i: << >> for None, else <<the share counts>>.
RecalculateShares(tbl, eq, bar, risk_values, p) ==
    IF At(tbl.signal, bar) = At(tbl.signal, bar - 1)
    THEN << >>
    ELSE IF StopDegenerate(At(tbl.close, bar), At(tbl.stop_loss, bar))
    THEN << >>
    ELSE <<NewShares(tbl, eq, bar, risk_values, p)>>

\* The exception eqty_risk_shares raises for one of the three risk-based
\* strategies at bar i, "none" if it returns for each.
SharesError(tbl, eq, bar, risk_values, p) ==
    IF \E s \in Strategies \ {"equal"} :
           EqtyRiskShares(Num(At(tbl.close, bar)),
                          StopCell(At(tbl.stop_loss, bar)), eq[s][bar + 1],
                          IF s = "constant" THEN Rational(p.avg)
                                            ELSE risk_values[s],
                          1, p.lot).raised # "none"
    THEN "ValueError"
    ELSE "none"

\* The exception that ends the iteration of the loop of calculate_shares at
\* bar i, "none" if it completes: KeyError when df.at is asked for a column
\* the table lacks (the daily change first; the signal, the close and the
\* stop in _recalculate_shares, the last two only on a bar whose signal
\* changed), else what eqty_risk_shares raises.  eq holds the equity columns
\* after _update_equity_columns.
IterationError(tbl, eq, bar, risk_values, p) ==
    IF "daily_chg" \notin DOMAIN tbl \/ "signal" \notin DOMAIN tbl
    THEN "KeyError"
    ELSE IF At(tbl.signal, bar) = At(tbl.signal, bar - 1)
    THEN "none"
    ELSE IF "close" \notin DOMAIN tbl \/ "stop_loss" \notin DOMAIN tbl
    THEN "KeyError"
    ELSE IF StopDegenerate(At(tbl.close, bar), At(tbl.stop_loss, bar))
    THEN "none"
    ELSE SharesError(tbl, eq, bar, risk_values, p)

\* One iteration of the loop of calculate_shares at bar i, on the columns
\* eq, shs and rsk and the local dict: the columns and the dict after it.
SizingIteration(tbl, eq, shs, rsk, dict, bar, p) ==
    LET curr_chg == At(tbl.daily_chg, bar)
        eq_now == UpdateEquityColumns(eq, bar, dict, curr_chg)
        risk_values == CalculateRiskAppetites(eq_now, bar, p)
        new_shares == RecalculateShares(tbl, eq_now, bar, risk_values, p)
        dict_now == IF new_shares # << >> THEN new_shares[1] ELSE dict
    IN [equity |-> eq_now,
        risk |-> [s \in RiskStrategies |->
                     [rsk[s] EXCEPT ![bar + 1] = risk_values[s]]],
        shares |-> [s \in Strategies |->
                       [shs[s] EXCEPT ![bar + 1] = dict_now[s]]],
        shares_dict |-> dict_now]

\* Values of the argument tolerance.
Tolerances == {Num(-1), Zero, Frac(1, 2)}

\* Values of the argument mn.
MnValues == {Zero, Frac(1, 2), One, Num(2)}

\* Values of the argument mx.
MxValues == {Zero, One}

\* Values of the argument equal_weight.
EqualWeights == {Zero, Frac(1, 2), One, Frac(3, 2)}

\* Values of the argument avg, which the constructor does not check.
Averages == {Frac(1, 2), NaN}

\* Values of the argument lot.
Lots == {0, 2}

\* Values of the argument initial_capital.
Capitals == {0, 20}

\* The arguments of PositionSizing(...); an avg that is NaN comes with
\* mn = mx and equal_weight = 1.
SizerParameters ==
    {p \in [tolerance : Tolerances, mn : MnValues, mx : MxValues,
            equal_weight : EqualWeights, avg : Averages, lot : Lots,
            initial_capital : Capitals] :
        IsNaN(p.avg) => (p.mn = p.mx /\ p.equal_weight = One)}

\* Rows <<close, stop_loss, daily_chg>> of a bar the loop reads: a stop
\* below the price on a losing bar, a stop at the price on a winning bar, a
\* price of zero on a bar that loses little, and a negative price on a
\* winning bar.
SizingRows == {<<5, 3, -3>>, <<5, 5, 1>>, <<0, 3, -1>>, <<-5, 3, 1>>}

\* The row of bar 0, of which the loop reads the signal only.
SizingRow0 == <<5, 3, 0>>

\* Values of the signal column; bar 0 holds 0.
SizingSignals == {0, 1}

\* The tables of n bars handed to calculate_shares.
SizingTables(n) ==
    {[signal |-> sg,
      close |-> [k \in 1..n |-> rows[k][1]],
      stop_loss |-> [k \in 1..n |-> rows[k][2]],
      daily_chg |-> [k \in 1..n |-> rows[k][3]]] :
        sg \in {f \in [1..n -> SizingSignals] : f[1] = 0},
        rows \in {r \in [1..n -> SizingRows \cup {SizingRow0}] :
                     /\ r[1] = SizingRow0
                     /\ \A k \in 2..n : r[k] \in SizingRows}}

\* len(df): every column of a table has its length.
TableLen(tbl) == Len(tbl[CHOOSE c \in DOMAIN tbl : TRUE])

\* PositionSizing(tolerance, mn, mx, equal_weight, avg, lot, initial_capital)
NewPositionSizing ==
    /\ ps_pc = "new"
    /\ IF ValidateParameters(ps_params) = "accepted"
       THEN sizer' = ps_params /\ ps_pc' = "ready" /\ ps_error' = "none"
       ELSE sizer' = << >> /\ ps_pc' = "raised" /\ ps_error' = "ValueError"
    /\ UNCHANGED <<ps_params, ps_df, df_equity, df_shares, df_risk,
                   shares_dict, ps_i, ers_args, ers_result, ra_args,
                   ra_result, ps_stock_dfs, ps_stock_results, ps_stocks_mode,
                   ps_stocks_pending, ps_stocks_pc,
                   ps_ticker>>
    /\ UNCHANGED <<combinerVars, df_out, metaVars, gridVars, dispatchVars,
                   workerVars>>

\* calculate_shares(df, signal) up to its loop: _initialize_columns and
\* shares_dict.
CalculateSharesCall ==
    /\ ps_pc = "ready"
    /\ \E n \in 1..MaxSizingBars : \E tbl \in SizingTables(n) :
          /\ ps_df' = tbl
          /\ df_equity' = InitialEquity(n, sizer.initial_capital)
          /\ df_shares' = InitialShares(n)
          /\ df_risk' = InitialRisk(n)
    /\ shares_dict' = InitialSharesDict
    /\ ps_i' = 1
    /\ ps_pc' = "loop"
    /\ UNCHANGED <<sizer, ps_params, ps_error, ers_args, ers_result, ra_args,
                   ra_result, ps_stock_dfs, ps_stock_results, ps_stocks_mode,
                   ps_stocks_pending, ps_stocks_pc,
                   ps_ticker>>
    /\ UNCHANGED <<combinerVars, df_out, metaVars, gridVars, dispatchVars,
                   workerVars>>

\* One iteration of for i in range(1, len(df)): the equity columns, then the
\* risk columns from them, then shares_dict, then the shares columns.
SizingLoopBody ==
    /\ ps_pc = "loop"
    /\ ps_i < TableLen(ps_df)
    /\ "daily_chg" \in DOMAIN ps_df
    /\ df_equity' = UpdateEquityColumns(df_equity, ps_i, shares_dict,
                                        At(ps_df.daily_chg, ps_i))
    /\ df_risk' = [s \in RiskStrategies |->
                      [df_risk[s] EXCEPT ![ps_i + 1] =
                          CalculateRiskAppetites(df_equity', ps_i, sizer)[s]]]
    /\ IterationError(ps_df, df_equity', ps_i,
                      [s \in RiskStrategies |-> df_risk'[s][ps_i + 1]],
                      sizer) = "none"
    /\ LET new_shares ==
               RecalculateShares(
                   ps_df, df_equity', ps_i,
                   [s \in RiskStrategies |-> df_risk'[s][ps_i + 1]], sizer)
       IN shares_dict' = IF new_shares # << >> THEN new_shares[1]
                                               ELSE shares_dict
    /\ df_shares' = [s \in Strategies |->
                        [df_shares[s] EXCEPT ![ps_i + 1] = shares_dict'[s]]]
    /\ ps_i' = ps_i + 1
    /\ UNCHANGED <<sizer, ps_params, ps_pc, ps_error, ps_df, ers_args,
                   ers_result, ra_args, ra_result, ps_stock_dfs,
                   ps_stock_results, ps_stocks_mode, ps_stocks_pending,
                   ps_stocks_pc,
                   ps_ticker>>
    /\ UNCHANGED <<combinerVars, df_out, metaVars, gridVars, dispatchVars,
                   workerVars>>

\* An iteration of the loop that an exception ends.  Without the column of
\* daily changes nothing has been written at bar i; otherwise the equity and
\* the risk columns hold their values of bar i and the shares columns do
\* not.  The exception leaves calculate_shares.  Only a missing column or a
\* bar whose signal changed raises.
SizingLoopRaises ==
    /\ ps_pc = "loop"
    /\ ps_i < TableLen(ps_df)
    /\ \/ ~({"daily_chg", "signal"} \subseteq DOMAIN ps_df)
       \/ At(ps_df.signal, ps_i) # At(ps_df.signal, ps_i - 1)
    /\ IF "daily_chg" \notin DOMAIN ps_df
       THEN /\ df_equity' = df_equity
            /\ df_risk' = df_risk
            /\ ps_error' = "KeyError"
       ELSE /\ df_equity' = UpdateEquityColumns(df_equity, ps_i, shares_dict,
                                                At(ps_df.daily_chg, ps_i))
            /\ df_risk' =
                  [s \in RiskStrategies |->
                      [df_risk[s] EXCEPT ![ps_i + 1] =
                          CalculateRiskAppetites(df_equity', ps_i, sizer)[s]]]
            /\ ps_error' =
                  IterationError(ps_df, df_equity', ps_i,
                                 [s \in RiskStrategies |->
                                     df_risk'[s][ps_i + 1]],
                                 sizer)
            /\ ps_error' # "none"
    /\ ps_pc' = "failed"
    /\ UNCHANGED <<sizer, ps_params, ps_df, df_shares, shares_dict, ps_i,
                   ers_args, ers_result, ra_args, ra_result, ps_stock_dfs,
                   ps_stock_results, ps_stocks_mode, ps_stocks_pending,
                   ps_stocks_pc,
                   ps_ticker>>
    /\ UNCHANGED <<combinerVars, df_out, metaVars, gridVars, dispatchVars,
                   workerVars>>

\* return df
CalculateSharesReturn ==
    /\ ps_pc = "loop"
    /\ ps_i >= TableLen(ps_df)
    /\ ps_pc' = "done"
    /\ UNCHANGED <<sizer, ps_params, ps_error, ps_df, df_equity, df_shares,
                   df_risk, shares_dict, ps_i, ers_args, ers_result, ra_args,
                   ra_result, ps_stock_dfs, ps_stock_results, ps_stocks_mode,
                   ps_stocks_pending, ps_stocks_pc,
                   ps_ticker>>
    /\ UNCHANGED <<combinerVars, df_out, metaVars, gridVars, dispatchVars,
                   workerVars>>

\* The arguments of the constructor, before it runs.
SizingInit ==
    /\ ps_params \in SizerParameters
    /\ sizer = << >>
    /\ ps_pc = "new"
    /\ ps_error = "none"
    /\ ps_df = << >>
    /\ WorkerAtRest
    /\ df_equity = << >>
    /\ df_shares = << >>
    /\ df_risk = << >>
    /\ shares_dict = << >>
    /\ ps_i = 0
    /\ ers_args = << >>
    /\ ers_result = << >>
    /\ ra_args = << >>
    /\ ra_result = << >>
    /\ ps_stock_dfs = << >>
    /\ ps_stock_results = << >>
    /\ ps_stocks_mode = "none"
    /\ ps_stocks_pending = {}
    /\ ps_stocks_pc = "rest"
    /\ ps_ticker = "none"
    /\ CombinerAtRest
    /\ df_out = << >>
    /\ MetaAtRest
    /\ GridAtRest
    /\ DispatchAtRest

SizingNext ==
    \/ NewPositionSizing
    \/ CalculateSharesCall
    \/ SizingLoopBody
    \/ SizingLoopRaises
    \/ CalculateSharesReturn

SpecSizing == SizingInit /\ [][SizingNext]_vars

\* Values of the arguments px, sl, eqty and risk of eqty_risk_shares, and of
\* its whole-number arguments fx and lot.
SharePrices == {NaN, Num(-5), Zero, Num(5), Num(50)}

SharesStops == {NaN, Num(3), Num(5), Num(40)}

ShareEquities == {NaN, Num(-1), Zero, Num(20), Num(100000)}

ShareRisks == {NaN, Frac(-1, 50), Frac(1, 50), One}

ShareRates == {-1, 0, 1, 2}

ShareLots == {-1, 0, 1, 3}

\* sizer.eqty_risk_shares(px, sl, eqty, risk, fx, lot), called on its own.
EqtyRiskSharesCall ==
    /\ ers_args # << >>
    /\ ers_result = << >>
    /\ ers_result' = EqtyRiskShares(ers_args.px, ers_args.sl, ers_args.eqty,
                                    Rational(ers_args.risk), ers_args.fx,
                                    ers_args.lot)
    /\ UNCHANGED <<ps_params, sizer, ps_pc, ps_error, ps_df, df_equity,
                   df_shares, df_risk, shares_dict, ps_i, ers_args, ra_args,
                   ra_result, ps_stock_dfs, ps_stock_results, ps_stocks_mode,
                   ps_stocks_pending, ps_stocks_pc,
                   ps_ticker>>
    /\ UNCHANGED <<combinerVars, df_out, metaVars, gridVars, dispatchVars,
                   workerVars>>

\* The arguments of one call of eqty_risk_shares, before it runs.
SharesInit ==
    /\ ers_args \in [px : SharePrices, sl : SharesStops, eqty : ShareEquities,
                     risk : ShareRisks, fx : ShareRates, lot : ShareLots]
    /\ ers_result = << >>
    /\ ps_params = << >>
    /\ sizer = << >>
    /\ ps_pc = "rest"
    /\ ps_error = "none"
    /\ ps_df = << >>
    /\ WorkerAtRest
    /\ df_equity = << >>
    /\ df_shares = << >>
    /\ df_risk = << >>
    /\ shares_dict = << >>
    /\ ps_i = 0
    /\ ra_args = << >>
    /\ ra_result = << >>
    /\ ps_stock_dfs = << >>
    /\ ps_stock_results = << >>
    /\ ps_stocks_mode = "none"
    /\ ps_stocks_pending = {}
    /\ ps_stocks_pc = "rest"
    /\ ps_ticker = "none"
    /\ CombinerAtRest
    /\ df_out = << >>
    /\ MetaAtRest
    /\ GridAtRest
    /\ DispatchAtRest

SharesNext == EqtyRiskSharesCall

SpecShares == SharesInit /\ [][SharesNext]_vars

\* Values of a bar of the equity curve handed to risk_appetite.
CurveValues == {Num(-2), Num(-1), Zero, One, Num(2)}

\* The equity curves handed to risk_appetite.
Curves == UNION {[1..n -> CurveValues] : n \in 1..MaxCurveLen}

\* Values of the argument tolerance below zero.
CurveTolerances == {Frac(-1, 2), Num(-1)}

\* Values of the pair of arguments mn and mx.
CurveRanges == {<<Frac(1, 2), One>>, <<One, Frac(1, 2)>>, <<One, One>>}

\* Values of the argument shape.
Shapes == {-1, 0, 1}

\* sizer.risk_appetite(eqty, tolerance, mn, mx, span, shape), called on its
\* own.
RiskAppetiteCall ==
    /\ ra_args # << >>
    /\ ra_result = << >>
    /\ ra_result' = RiskAppetite(ra_args.eqty, ra_args.tolerance, ra_args.mn,
                                 ra_args.mx, ra_args.span, ra_args.shape)
    /\ UNCHANGED <<ps_params, sizer, ps_pc, ps_error, ps_df, df_equity,
                   df_shares, df_risk, shares_dict, ps_i, ers_args,
                   ers_result, ra_args, ps_stock_dfs, ps_stock_results,
                   ps_stocks_mode, ps_stocks_pending, ps_stocks_pc,
                   ps_ticker>>
    /\ UNCHANGED <<combinerVars, df_out, metaVars, gridVars, dispatchVars,
                   workerVars>>

\* The arguments of one call of risk_appetite, before it runs.
RiskInit ==
    /\ \E eqty \in Curves, tolerance \in CurveTolerances,
          range \in CurveRanges, shape \in Shapes :
           ra_args = [eqty |-> eqty, tolerance |-> tolerance,
                      mn |-> range[1], mx |-> range[2], span |-> RiskSpan,
                      shape |-> shape]
    /\ ra_result = << >>
    /\ ps_params = << >>
    /\ sizer = << >>
    /\ ps_pc = "rest"
    /\ ps_error = "none"
    /\ ps_df = << >>
    /\ WorkerAtRest
    /\ df_equity = << >>
    /\ df_shares = << >>
    /\ df_risk = << >>
    /\ shares_dict = << >>
    /\ ps_i = 0
    /\ ers_args = << >>
    /\ ers_result = << >>
    /\ ps_stock_dfs = << >>
    /\ ps_stock_results = << >>
    /\ ps_stocks_mode = "none"
    /\ ps_stocks_pending = {}
    /\ ps_stocks_pc = "rest"
    /\ ps_ticker = "none"
    /\ CombinerAtRest
    /\ df_out = << >>
    /\ MetaAtRest
    /\ GridAtRest
    /\ DispatchAtRest

RiskNext == RiskAppetiteCall

SpecRisk == RiskInit /\ [][RiskNext]_vars

\* One iteration of the loop of calculate_shares on the columns the earlier
\* iterations have written: the columns are stored values, complete before
\* the iteration reads them.
SizingIterationOn(tbl, prev, bar, p) ==
    IF prev # prev
    THEN prev
    ELSE SizingIteration(tbl, prev.equity, prev.shares, prev.risk,
                         prev.shares_dict, bar, p)

\* calculate_shares_for_signal run through bar: the columns and the dict
\* after the iterations 1..bar of the loop of calculate_shares on a copy of
\* tbl.
RECURSIVE CalculateSharesForSignal(_, _, _)
CalculateSharesForSignal(tbl, p, bar) ==
    IF bar = 0
    THEN [equity |-> InitialEquity(Len(tbl.signal), p.initial_capital),
          risk |-> InitialRisk(Len(tbl.signal)),
          shares |-> InitialShares(Len(tbl.signal)),
          shares_dict |-> InitialSharesDict]
    ELSE SizingIterationOn(tbl, CalculateSharesForSignal(tbl, p, bar - 1),
                           bar, p)

\* required_cols of _process_stock_position_sizing for the one signal.
RequiredColumns == {"signal", "daily_chg", "stop_loss", "close"}

\* _process_stock_position_sizing: <<ticker, result_df>>, result_df the
\* table itself when a required column is missing, else the table with the
\* equity, risk and shares columns of the signal.
ProcessStockPositionSizing(ticker, tbl, p) ==
    IF ~(RequiredColumns \subseteq DOMAIN tbl)
    THEN <<ticker, tbl>>
    ELSE LET processed ==
                 CalculateSharesForSignal(tbl, p, Len(tbl.signal) - 1)
         IN <<ticker,
              tbl @@ [equity |-> processed.equity, risk |-> processed.risk,
                      shares |-> processed.shares]>>

\* stock_results[ticker] = result_df, filed under the place of arrival
\* instead of the ticker.
StoreStockResultByArrival(stock_map, ticker, result_df) ==
    LET key == Tickers[Cardinality(DOMAIN stock_map) + 1]
    IN [t \in DOMAIN stock_map \cup {key} |->
           IF t = key THEN result_df ELSE stock_map[t]]

\* stock_results[ticker] = result_df
StoreStockResult(stock_map, ticker, result_df) ==
    [t \in DOMAIN stock_map \cup {ticker} |->
        IF t = ticker THEN result_df ELSE stock_map[t]]

\* The sizer handed to run_position_sizing_parallel_over_stocks.
FanOutSizer ==
    [tolerance |-> Num(-1), mn |-> Frac(1, 2), mx |-> One,
     equal_weight |-> One, avg |-> Frac(1, 2), lot |-> 2,
     initial_capital |-> 20]

\* The tables of the symbols: one bar less than MaxSizingBars, the signal
\* changing at every bar and the later bars alike; and one table without
\* the stop-loss column.
FanOutTables ==
    LET full == {tbl \in SizingTables(MaxSizingBars - 1) :
                    \A k \in 1..Len(tbl.signal) :
                        /\ tbl.signal[k] = (k - 1) % 2
                        /\ k > 2 => /\ tbl.close[k] = tbl.close[2]
                                    /\ tbl.stop_loss[k] = tbl.stop_loss[2]
                                    /\ tbl.daily_chg[k] = tbl.daily_chg[2]}
        some == CHOOSE tbl \in full : TRUE
    IN full \cup {[c \in DOMAIN some \ {"stop_loss"} |-> some[c]]}

\* The stock_dfs of the first k tickers.
FanOutStockDfs ==
    UNION {[{Tickers[j] : j \in 1..k} -> FanOutTables] :
              k \in 0..Len(Tickers)}

\* run_position_sizing_parallel_over_stocks up to the choice of its path.
RunPositionSizingOverStocks ==
    /\ ps_stocks_pc = "ready"
    /\ \E n_signals \in 0..1, n_jobs \in JobsArgs, cores \in 1..MaxCores :
          LET n_stocks == Cardinality(DOMAIN ps_stock_dfs)
              path == IF n_stocks = 0 \/ n_signals = 0
                      THEN "ValueError"
                      ELSE SizingOverStocksPath(n_jobs, cores, n_stocks)
          IN IF path = "ValueError"
             THEN /\ ps_stocks_pc' = "raised"
                  /\ ps_error' = "ValueError"
                  /\ UNCHANGED <<ps_stock_results, ps_stocks_mode,
                                 ps_stocks_pending>>
             ELSE /\ ps_stocks_pc' = "stocks"
                  /\ ps_stock_results' = << >>
                  /\ ps_stocks_mode' = path
                  /\ ps_stocks_pending' = DOMAIN ps_stock_dfs
                  /\ UNCHANGED ps_error
    /\ UNCHANGED <<ps_params, sizer, ps_pc, ps_df, df_equity, df_shares,
                   df_risk, shares_dict, ps_i, ers_args, ers_result, ra_args,
                   ra_result, ps_stock_dfs, ps_ticker>>
    /\ UNCHANGED <<combinerVars, df_out, metaVars, gridVars, dispatchVars,
                   workerVars>>

\* The ticker the loop over stock_dfs.items() processes next.
NextSizingTicker ==
    CHOOSE t \in ps_stocks_pending :
        \A j, k \in 1..Len(Tickers) :
            (Tickers[j] = t /\ Tickers[k] \in ps_stocks_pending) => j <= k

\* _process_stock_position_sizing on a table that lacks a required column:
\* the signal is skipped and the copy of the table returned as it is.  The
\* symbol is the next of the loop on the sequential path, any symbol still
\* out on the pool path, whose results arrive in any order.
StockSkipped ==
    /\ ps_stocks_pc = "stocks"
    /\ ps_ticker = "none"
    /\ \E t \in ps_stocks_pending :
          /\ ps_stocks_mode = "sequential" => t = NextSizingTicker
          /\ ~(RequiredColumns \subseteq DOMAIN ps_stock_dfs[t])
          /\ ps_stock_results' =
                 StoreStockResult(ps_stock_results, t, ps_stock_dfs[t])
          /\ ps_stocks_pending' = ps_stocks_pending \ {t}
    /\ UNCHANGED <<ps_params, sizer, ps_pc, ps_error, ps_df, df_equity,
                   df_shares, df_risk, shares_dict, ps_i, ers_args,
                   ers_result, ra_args, ra_result, ps_stock_dfs,
                   ps_stocks_mode, ps_stocks_pc, ps_ticker>>
    /\ UNCHANGED <<combinerVars, df_out, metaVars, gridVars, dispatchVars,
                   workerVars>>

\* _process_stock_position_sizing on a table with the required columns, up
\* to the loop of calculate_shares on a copy of the table.  The workers of a
\* pool share nothing, so the one whose result arrives next is followed.
StockWorkerStarts ==
    /\ ps_stocks_pc = "stocks"
    /\ ps_ticker = "none"
    /\ \E t \in ps_stocks_pending :
          /\ ps_stocks_mode = "sequential" => t = NextSizingTicker
          /\ RequiredColumns \subseteq DOMAIN ps_stock_dfs[t]
          /\ ps_ticker' = t
          /\ ps_df' = ps_stock_dfs[t]
          /\ df_equity' = InitialEquity(Len(ps_stock_dfs[t].signal),
                                        sizer.initial_capital)
          /\ df_shares' = InitialShares(Len(ps_stock_dfs[t].signal))
          /\ df_risk' = InitialRisk(Len(ps_stock_dfs[t].signal))
    /\ shares_dict' = InitialSharesDict
    /\ ps_i' = 1
    /\ ps_pc' = "loop"
    /\ UNCHANGED <<ps_params, sizer, ps_error, ers_args, ers_result, ra_args,
                   ra_result, ps_stock_dfs, ps_stock_results, ps_stocks_mode,
                   ps_stocks_pending, ps_stocks_pc>>
    /\ UNCHANGED <<combinerVars, df_out, metaVars, gridVars, dispatchVars,
                   workerVars>>

\* The worker returns (ticker, result_df), the table with the new columns
\* of the signal, and stock_results[ticker] = result_df files it.
StockSized ==
    /\ ps_stocks_pc = "stocks"
    /\ ps_ticker # "none"
    /\ ps_pc = "loop"
    /\ ps_i >= Len(ps_df.signal)
    /\ ps_stock_results' =
           StoreStockResult(ps_stock_results, ps_ticker,
                            ps_df @@ [equity |-> df_equity, risk |-> df_risk,
                                      shares |-> df_shares])
    /\ ps_stocks_pending' = ps_stocks_pending \ {ps_ticker}
    /\ ps_ticker' = "none"
    /\ ps_pc' = "rest"
    /\ ps_df' = << >>
    /\ df_equity' = << >>
    /\ df_shares' = << >>
    /\ df_risk' = << >>
    /\ shares_dict' = << >>
    /\ ps_i' = 0
    /\ UNCHANGED <<ps_params, sizer, ps_error, ers_args, ers_result, ra_args,
                   ra_result, ps_stock_dfs, ps_stocks_mode, ps_stocks_pc>>
    /\ UNCHANGED <<combinerVars, df_out, metaVars, gridVars, dispatchVars,
                   workerVars>>

\* return stock_results
SizingOverStocksReturn ==
    /\ ps_stocks_pc = "stocks"
    /\ ps_stocks_pending = {}
    /\ ps_stocks_pc' = "done"
    /\ UNCHANGED <<ps_params, sizer, ps_pc, ps_error, ps_df, df_equity,
                   df_shares, df_risk, shares_dict, ps_i, ers_args,
                   ers_result, ra_args, ra_result, ps_stock_dfs,
                   ps_stock_results, ps_stocks_mode, ps_stocks_pending,
                   ps_ticker>>
    /\ UNCHANGED <<combinerVars, df_out, metaVars, gridVars, dispatchVars,
                   workerVars>>

\* The arguments of run_position_sizing_parallel_over_stocks, before it
\* runs: a sizer that was constructed and the tables of the symbols.
SizingFanOutInit ==
    /\ ps_params = FanOutSizer
    /\ sizer = FanOutSizer
    /\ ps_stock_dfs \in FanOutStockDfs
    /\ ps_stocks_pc = "ready"
    /\ ps_ticker = "none"
    /\ ps_stock_results = << >>
    /\ ps_stocks_mode = "none"
    /\ ps_stocks_pending = {}
    /\ ps_pc = "rest"
    /\ ps_error = "none"
    /\ ps_df = << >>
    /\ WorkerAtRest
    /\ df_equity = << >>
    /\ df_shares = << >>
    /\ df_risk = << >>
    /\ shares_dict = << >>
    /\ ps_i = 0
    /\ ers_args = << >>
    /\ ers_result = << >>
    /\ ra_args = << >>
    /\ ra_result = << >>
    /\ CombinerAtRest
    /\ df_out = << >>
    /\ MetaAtRest
    /\ GridAtRest
    /\ DispatchAtRest

\* A fan-out over symbols: of the grid search, or of position sizing.
FanOutInit == GridInit \/ SizingFanOutInit

FanOutNext ==
    \/ Construct
    \/ RunGridSearchOverStocks
    \/ StockReturns
    \/ OverStocksReturn
    \/ RunPositionSizingOverStocks
    \/ StockSkipped
    \/ StockWorkerStarts
    \/ SizingLoopBody
    \/ StockSized
    \/ SizingOverStocksReturn

SpecFanOut == FanOutInit /\ [][FanOutNext]_vars

\* ---------------------------------------- tables as objects; the worker

\* signals, the argument of the worker.
WorkerSignals == <<"a", "b">>

\* get_signal_column_names(signal), with the default suffixes and close
\* column.
GetSignalColumnNames(signal) ==
    [signal |-> signal,
     daily_chg |-> signal \o "_chg1D_fx",
     sl |-> signal \o "_stop_loss",
     close |-> "close"]

\* The object that is the table of a symbol, as the caller holds it.
InputRef(ticker) == <<ticker, 0>>

\* The table itself in place of a copy of it.
DfCopyShared(ref) == ref

\* df.copy(): an object of its own.
DfCopy(ref) == <<ref[1], ref[2] + 1>>

\* A heap with the object DfCopy(ref), which holds what ref holds.
WithCopy(heap, ref) == (DfCopy(ref) :> heap[ref]) @@ heap

\* The columns calculate_shares reads for a signal, df[signal], df[daily_chg],
\* df[sl] and df[close], as far as the table has them.  A table is its input
\* columns by name (cols) and, for every signal that was sized, the equity,
\* risk and share columns of that signal (out).
ColumnArguments(tbl, signal_name) ==
    LET names == GetSignalColumnNames(signal_name)
        named == [signal |-> names.signal, daily_chg |-> names.daily_chg,
                  stop_loss |-> names.sl, close |-> names.close]
    IN [c \in {r \in RequiredColumns : named[r] \in DOMAIN tbl.cols} |->
           tbl.cols[named[c]]]

\* The table object ref as it is now: what calculate_shares has written so
\* far is part of the object behind its argument df.
Deref(ref) ==
    IF ref = ps_df_ref
    THEN [ps_heap[ref] EXCEPT
             !.out = (WorkerSignals[signal_k] :>
                         [equity |-> df_equity, risk |-> df_risk,
                          shares |-> df_shares]) @@ @]
    ELSE ps_heap[ref]

\* The tables of the symbols: one bar less than MaxSizingBars.  Signal a
\* changes at every bar, signal b stays flat or is entered at the third bar;
\* a stop-loss column may hold NaN at the third bar; and the stop-loss
\* column of a or the close column may be missing.
WorkerTables ==
    LET n == MaxSizingBars - 1
        whole == [a_nan : BOOLEAN, b_kind : {"flat", "entered", "nan"}]
        Columns(v) ==
            [close |-> [k \in 1..n |-> 5],
             a |-> [k \in 1..n |-> (k - 1) % 2],
             a_stop_loss |-> [k \in 1..n |->
                                 IF v.a_nan /\ k = 3 THEN NoStop ELSE 3],
             a_chg1D_fx |-> [k \in 1..n |->
                                IF k = 1 THEN 0
                                ELSE IF k % 2 = 0 THEN -3 ELSE 1],
             b |-> [k \in 1..n |->
                       IF v.b_kind = "flat" \/ k <= 2 THEN 0 ELSE 1],
             b_stop_loss |-> [k \in 1..n |->
                                 IF v.b_kind = "nan" /\ k = 3
                                 THEN NoStop ELSE 3],
             b_chg1D_fx |-> [k \in 1..n |-> IF k = 1 THEN 0 ELSE 1]]
        Without(cols, gone) == [c \in DOMAIN cols \ gone |-> cols[c]]
    IN {[cols |-> Without(Columns(v), gone), out |-> << >>] :
           v \in whole, gone \in {{}, {"a_stop_loss"}, {"close"}}}

\* The stock_dfs of the first k tickers.
WorkerStockDfs ==
    UNION {[{Tickers[j] : j \in 1..k} -> WorkerTables] :
              k \in 0..Len(Tickers)}

\* calculate_shares(df, signal, ...) up to its loop, on the table tbl:
\* _initialize_columns and the shares held at the start.
CalculateSharesStarts(tbl, signal_name) ==
    /\ ps_df' = ColumnArguments(tbl, signal_name)
    /\ df_equity' = InitialEquity(TableLen(ps_df'), sizer.initial_capital)
    /\ df_shares' = InitialShares(TableLen(ps_df'))
    /\ df_risk' = InitialRisk(TableLen(ps_df'))
    /\ shares_dict' = InitialSharesDict
    /\ ps_i' = 1
    /\ ps_pc' = "loop"

\* The caller runs sizer.calculate_shares on the table of a symbol, which
\* it writes in place.
DirectCall ==
    /\ ps_call = "direct"
    /\ ps_pc = "ready"
    /\ \E t \in DOMAIN ps_stock_dfs, k \in 1..Len(WorkerSignals) :
          /\ ps_ticker' = t
          /\ signal_k' = k
          /\ ps_df_ref' = InputRef(t)
          /\ CalculateSharesStarts(ps_heap[InputRef(t)], WorkerSignals[k])
    /\ UNCHANGED <<ps_params, sizer, ps_error, ers_args, ers_result, ra_args,
                   ra_result, ps_stock_dfs, ps_stock_results, ps_stocks_mode,
                   ps_stocks_pending, ps_stocks_pc, ps_heap, ps_result_df,
                   ps_call>>
    /\ UNCHANGED <<combinerVars, df_out, metaVars, gridVars, dispatchVars>>

\* The caller runs sizer.calculate_shares_for_signal on the table of a
\* symbol: df_copy = df.copy(), and calculate_shares(df=df_copy, ...).
CalculateSharesForSignalCall ==
    /\ ps_call = "wrapper"
    /\ ps_pc = "ready"
    /\ \E t \in DOMAIN ps_stock_dfs, k \in 1..Len(WorkerSignals) :
          /\ ps_ticker' = t
          /\ signal_k' = k
          /\ ps_heap' = WithCopy(ps_heap, InputRef(t))
          /\ ps_df_ref' = DfCopy(InputRef(t))
          /\ CalculateSharesStarts(ps_heap[InputRef(t)], WorkerSignals[k])
    /\ UNCHANGED <<ps_params, sizer, ps_error, ers_args, ers_result, ra_args,
                   ra_result, ps_stock_dfs, ps_stock_results, ps_stocks_mode,
                   ps_stocks_pending, ps_stocks_pc, ps_result_df, ps_call>>
    /\ UNCHANGED <<combinerVars, df_out, metaVars, gridVars, dispatchVars>>

\* _process_stock_position_sizing is called for a symbol:
\* result_df = df.copy().  The symbol is the next of the loop on the
\* sequential path, any symbol still out on the pool path.
WorkerCall ==
    /\ ps_call = "stocks"
    /\ ps_stocks_pc = "stocks"
    /\ \E t \in ps_stocks_pending :
          /\ ps_stocks_mode = "sequential" => t = NextSizingTicker
          /\ ps_ticker' = t
          /\ ps_heap' = WithCopy(ps_heap, InputRef(t))
          /\ ps_result_df' = DfCopy(InputRef(t))
    /\ signal_k' = 1
    /\ ps_call' = "signals"
    /\ UNCHANGED <<ps_params, sizer, ps_pc, ps_error, ps_df, df_equity,
                   df_shares, df_risk, shares_dict, ps_i, ers_args,
                   ers_result, ra_args, ra_result, ps_stock_dfs,
                   ps_stock_results, ps_stocks_mode, ps_stocks_pending,
                   ps_stocks_pc, ps_df_ref>>
    /\ UNCHANGED <<combinerVars, df_out, metaVars, gridVars, dispatchVars>>

\* The worker finds a required column of the signal missing in result_df,
\* warns and continues with the next signal.
WorkerSkipsSignal ==
    /\ ps_call = "signals"
    /\ signal_k <= Len(WorkerSignals)
    /\ DOMAIN ColumnArguments(Deref(ps_result_df), WorkerSignals[signal_k])
          # RequiredColumns
    /\ signal_k' = signal_k + 1
    /\ UNCHANGED <<ps_params, sizer, ps_pc, ps_error, ps_df, df_equity,
                   df_shares, df_risk, shares_dict, ps_i, ers_args,
                   ers_result, ra_args, ra_result, ps_stock_dfs,
                   ps_stock_results, ps_stocks_mode, ps_stocks_pending,
                   ps_stocks_pc, ps_ticker, ps_heap, ps_df_ref,
                   ps_result_df, ps_call>>
    /\ UNCHANGED <<combinerVars, df_out, metaVars, gridVars, dispatchVars>>

\* The worker calls sizer.calculate_shares_for_signal(df=result_df, ...),
\* which copies the table and starts calculate_shares on the copy.
WorkerSizesSignal ==
    /\ ps_call = "signals"
    /\ signal_k <= Len(WorkerSignals)
    /\ DOMAIN ColumnArguments(Deref(ps_result_df), WorkerSignals[signal_k])
          = RequiredColumns
    /\ ps_heap' = WithCopy(ps_heap, ps_result_df)
    /\ ps_df_ref' = DfCopy(ps_result_df)
    /\ CalculateSharesStarts(ps_heap[ps_result_df], WorkerSignals[signal_k])
    /\ ps_call' = "sizing"
    /\ UNCHANGED <<ps_params, sizer, ps_error, ers_args, ers_result, ra_args,
                   ra_result, ps_stock_dfs, ps_stock_results, ps_stocks_mode,
                   ps_stocks_pending, ps_stocks_pc, ps_ticker, ps_result_df,
                   signal_k>>
    /\ UNCHANGED <<combinerVars, df_out, metaVars, gridVars, dispatchVars>>

\* calculate_shares has ended and its frame is gone: the columns it wrote
\* stay in the object it wrote them to.
CalculateSharesLeft ==
    /\ ps_df_ref' = << >>
    /\ ps_df' = << >>
    /\ df_equity' = << >>
    /\ df_shares' = << >>
    /\ df_risk' = << >>
    /\ shares_dict' = << >>
    /\ ps_i' = 0
    /\ ps_pc' = "rest"

\* The worker has the table processed back: the columns of processed that
\* result_df lacks are copied into result_df.
WorkerMerges ==
    /\ ps_call = "sizing"
    /\ ps_pc = "done"
    /\ LET processed == Deref(ps_df_ref)
           current == Deref(ps_result_df)
           new_cols == DOMAIN processed.out \ DOMAIN current.out
           kept == [ps_heap EXCEPT ![ps_df_ref] = processed]
       IN ps_heap' =
              [kept EXCEPT ![ps_result_df] =
                  [current EXCEPT
                      !.out = [c \in new_cols |-> processed.out[c]] @@ @]]
    /\ CalculateSharesLeft
    /\ signal_k' = signal_k + 1
    /\ ps_call' = "signals"
    /\ UNCHANGED <<ps_params, sizer, ps_error, ers_args, ers_result, ra_args,
                   ra_result, ps_stock_dfs, ps_stock_results, ps_stocks_mode,
                   ps_stocks_pending, ps_stocks_pc, ps_ticker,
                   ps_result_df>>
    /\ UNCHANGED <<combinerVars, df_out, metaVars, gridVars, dispatchVars>>

\* except Exception: the worker logs the error of the signal and continues
\* with the next signal.
WorkerCatches ==
    /\ ps_call = "sizing"
    /\ ps_pc = "failed"
    /\ ps_heap' = [ps_heap EXCEPT ![ps_df_ref] = Deref(ps_df_ref)]
    /\ CalculateSharesLeft
    /\ ps_error' = "none"
    /\ signal_k' = signal_k + 1
    /\ ps_call' = "signals"
    /\ UNCHANGED <<ps_params, sizer, ers_args, ers_result, ra_args,
                   ra_result, ps_stock_dfs, ps_stock_results, ps_stocks_mode,
                   ps_stocks_pending, ps_stocks_pc, ps_ticker,
                   ps_result_df>>
    /\ UNCHANGED <<combinerVars, df_out, metaVars, gridVars, dispatchVars>>

\* return ticker, result_df; and stock_results[ticker] = result_df files it.
StockWorkerReturns ==
    /\ ps_call = "signals"
    /\ signal_k > Len(WorkerSignals)
    /\ ps_stock_results' =
           StoreStockResult(ps_stock_results, ps_ticker,
                            Deref(ps_result_df))
    /\ ps_stocks_pending' = ps_stocks_pending \ {ps_ticker}
    /\ ps_ticker' = "none"
    /\ ps_result_df' = << >>
    /\ signal_k' = 0
    /\ ps_call' = "stocks"
    /\ UNCHANGED <<ps_params, sizer, ps_pc, ps_error, ps_df, df_equity,
                   df_shares, df_risk, shares_dict, ps_i, ers_args,
                   ers_result, ra_args, ra_result, ps_stock_dfs,
                   ps_stocks_mode, ps_stocks_pc, ps_heap, ps_df_ref>>
    /\ UNCHANGED <<combinerVars, df_out, metaVars, gridVars, dispatchVars>>

\* The tables of the symbols as objects of the caller, a sizer that was
\* constructed, and the operation the caller is about to run on them:
\* calculate_shares, calculate_shares_for_signal, or
\* run_position_sizing_parallel_over_stocks.
WorkerInit ==
    /\ ps_params = FanOutSizer
    /\ sizer = FanOutSizer
    /\ ps_stock_dfs \in WorkerStockDfs
    /\ ps_heap = [ref \in {InputRef(t) : t \in DOMAIN ps_stock_dfs} |->
                     ps_stock_dfs[ref[1]]]
    /\ ps_call \in {"direct", "wrapper", "stocks"}
    /\ ps_pc = IF ps_call = "stocks" THEN "rest" ELSE "ready"
    /\ ps_stocks_pc = IF ps_call = "stocks" THEN "ready" ELSE "rest"
    /\ ps_ticker = "none"
    /\ ps_df_ref = << >>
    /\ ps_result_df = << >>
    /\ signal_k = 0
    /\ ps_stock_results = << >>
    /\ ps_stocks_mode = "none"
    /\ ps_stocks_pending = {}
    /\ ps_error = "none"
    /\ ps_df = << >>
    /\ df_equity = << >>
    /\ df_shares = << >>
    /\ df_risk = << >>
    /\ shares_dict = << >>
    /\ ps_i = 0
    /\ ers_args = << >>
    /\ ers_result = << >>
    /\ ra_args = << >>
    /\ ra_result = << >>
    /\ CombinerAtRest
    /\ df_out = << >>
    /\ MetaAtRest
    /\ GridAtRest
    /\ DispatchAtRest

WorkerNext ==
    \/ DirectCall
    \/ CalculateSharesForSignalCall
    \/ RunPositionSizingOverStocks
    \/ WorkerCall
    \/ WorkerSkipsSignal
    \/ WorkerSizesSignal
    \/ SizingLoopBody
    \/ SizingLoopRaises
    \/ CalculateSharesReturn
    \/ WorkerMerges
    \/ WorkerCatches
    \/ StockWorkerReturns
    \/ SizingOverStocksReturn

SpecWorker == WorkerInit /\ [][WorkerNext]_vars

\* ------------------------------------------------- the units of work

\* The fan-outs whose units of work read tables: the grid search over
\* combinations and over symbols, and position sizing over symbols.
UnitsInit == GridInit \/ WorkerInit

UnitsNext == GridNext \/ WorkerNext

SpecUnits == UnitsInit /\ [][UnitsNext]_vars

\* ------------------------------------------------------- observation terms

\* The call has written the output column.
ColumnWritten == pc = "loop" \/ runs >= 1

\* An iteration of the current call has just finished: bar i - 1 took the
\* position from prev_position to current_position.
StepTaken == pc = "loop" /\ i >= 2

\* The inputs of the bar that iteration read.
DirectionRead == At(df_direction, i - 1)
EntryRead == At(df_entry, i - 1)
ExitRead == At(df_exit, i - 1)

\* The loop of the current call is exhausted: the column is the one returned.
LoopDone == pc = "loop" /\ i >= NBars

\* The bars the current call has processed so far.
BarsDone == {b \in 1..(NBars - 1) : b < i}

\* ------------------------------------------------------------------ claims

\* C1: the column written by combine_signals holds a value of {-1, 0, 1} at
\* every bar and 0 at bar 0, for every table and both flags.
C1_OutputTernarySeedZero ==
    ColumnWritten =>
        /\ Len(df_out) = NBars
        /\ \A k \in 1..NBars : df_out[k] \in Ternary
        /\ NBars >= 1 => At(df_out, 0) = 0

\* C1 witness: a returned column that went LONG on a bar whose direction is
\* outside {-1, 0, 1} and then SHORT, while bar 0, whose own inputs all read
\* 1, stayed 0.
C1_Witness ==
    /\ pc = "idle" /\ runs = 1 /\ NBars >= 3
    /\ At(df_direction, 0) = 1 /\ At(df_entry, 0) = 1
    /\ At(df_direction, 1) \notin Ternary
    /\ At(df_out, 0) = 0 /\ At(df_out, 1) = 1 /\ At(df_out, 2) = -1

\* C2: with allow_flips = FALSE no two consecutive bars of the combined
\* signal hold 1 then -1 or -1 then 1.
C2_NoDirectFlipWithoutFlips ==
    (ColumnWritten /\ ~allow_flips) =>
        \A k \in 1..(NBars - 1) :
            ~(df_out[k] = 1 /\ df_out[k + 1] = -1)
            /\ ~(df_out[k] = -1 /\ df_out[k + 1] = 1)

\* C2 witness: flips are off, the position is LONG and the bar read asks for
\* a flip (bearish regime, short entry, no exit signal): the position goes FLAT.
C2_Witness ==
    /\ StepTaken /\ ~allow_flips
    /\ prev_position = 1 /\ DirectionRead = -1 /\ EntryRead = -1 /\ ExitRead = 0
    /\ current_position = 0

\* The FLAT rule as the specification words it.
FlatRule(direction, entry, strict) ==
    IF entry = 1 /\ (IF strict THEN direction = 1 ELSE direction # -1)
    THEN 1
    ELSE IF entry = -1 /\ (IF strict THEN direction = -1 ELSE direction # 1)
    THEN -1
    ELSE 0

\* C3: from FLAT the position becomes LONG exactly on entry = 1 with an
\* admissible direction, SHORT exactly on entry = -1 with an admissible
\* direction, and stays FLAT otherwise (always so when entry = 0).
C3_FlatTransitions ==
    (StepTaken /\ prev_position = 0) =>
        /\ current_position
             = FlatRule(DirectionRead, EntryRead, require_regime_alignment)
        /\ EntryRead = 0 => current_position = 0

\* C3 witness: under strict alignment a FLAT position reads entry = 1 in a
\* neutral regime at bar 1 and stays FLAT, then reads entry = 1 in a bullish
\* regime at bar 2 and goes LONG.
C3_Witness ==
    /\ StepTaken /\ require_regime_alignment /\ i = 3
    /\ At(df_entry, 1) = 1 /\ At(df_direction, 1) = 0 /\ At(df_out, 1) = 0
    /\ prev_position = 0 /\ EntryRead = 1 /\ DirectionRead = 1
    /\ current_position = 1

\* The LONG rule as the specification words it.
LongRule(direction, entry, exit_signal, flips, strict) ==
    IF exit_signal = -1 THEN 0
    ELSE IF direction = -1 THEN (IF flips /\ entry = -1 THEN -1 ELSE 0)
    ELSE IF flips /\ entry = -1 /\ ~strict THEN -1
    ELSE 1

C5_SignSymmetry ==
    (pc = "loop" /\ runs >= 1 /\ mirrored) =>
        \A b \in BarsDone : At(df_out, b) = 0 - At(first_out, b)

\* C5 witness: the call on the reversed table is complete, and the original
\* signal went LONG and then SHORT.
C5_Witness ==
    /\ LoopDone /\ runs >= 1 /\ mirrored /\ NBars >= 3
    /\ At(first_out, 1) = 1 /\ At(first_out, 2) = -1
    /\ At(df_out, 1) = -1 /\ At(df_out, 2) = 1

\* C6: the exit signal is tested first: LONG with exit = -1 goes FLAT and
\* SHORT with exit = 1 goes FLAT, whatever direction, entry and the flags are.
C6_ExitSignalFirst ==
    StepTaken =>
        /\ (prev_position = 1 /\ ExitRead = -1) => current_position = 0
        /\ (prev_position = -1 /\ ExitRead = 1) => current_position = 0

\* C6 witness: LONG, flips allowed, bearish regime and short entry, and the
\* exit signal fires: the position is FLAT, not SHORT.
C6_Witness ==
    /\ StepTaken /\ allow_flips
    /\ prev_position = 1 /\ ExitRead = -1 /\ DirectionRead = -1 /\ EntryRead = -1
    /\ current_position = 0

\* C7: for a non-FLAT position and the bar about to be read, the step goes
\* to FLAT with require_regime_alignment = TRUE exactly when it goes to FLAT
\* with require_regime_alignment = FALSE.
C7_AlignmentNeverAffectsExits ==
    (pc = "loop" /\ i < NBars /\ current_position # 0) =>
        ((NextPosition(current_position, At(df_direction, i), At(df_entry, i),
                       At(df_exit, i), allow_flips, TRUE) = 0)
         <=>
         (NextPosition(current_position, At(df_direction, i), At(df_entry, i),
                       At(df_exit, i), allow_flips, FALSE) = 0))

\* C7 witness: alignment is not required, the position is LONG and the bar
\* just read had a bearish regime and no exit signal: the position left to FLAT.
C7_Witness ==
    /\ StepTaken /\ ~require_regime_alignment
    /\ prev_position = 1 /\ DirectionRead = -1 /\ ExitRead = 0 /\ EntryRead = 0
    /\ current_position = 0

\* C8: a bar whose direction, entry and exit are all 0 leaves the position
\* as it was, in every state and for both flags.
C8_NeutralBarHolds ==
    (StepTaken /\ DirectionRead = 0 /\ EntryRead = 0 /\ ExitRead = 0) =>
        current_position = prev_position

\* C8 witness: a SHORT position read an all-neutral bar and is still SHORT,
\* with flips allowed and alignment not required.
C8_Witness ==
    /\ StepTaken /\ allow_flips /\ ~require_regime_alignment
    /\ prev_position = -1
    /\ DirectionRead = 0 /\ EntryRead = 0 /\ ExitRead = 0
    /\ current_position = -1

\* C9: a later call on the same inputs and flags returns the column the
\* first call returned, whatever the output column held before the call and
\* whatever earlier calls did.
C9_RepeatedCallSameColumn ==
    (LoopDone /\ runs >= 1 /\ ~mirrored) => df_out = first_out

\* C9 witness: the second call is complete; the first one ended in a
\* position and left a column with LONG and SHORT bars behind.
C9_Witness ==
    /\ LoopDone /\ runs = 1 /\ ~mirrored /\ NBars >= 3
    /\ At(first_out, 1) = 1 /\ At(first_out, 2) = -1
    /\ df_out = first_out

\* C10: a direct flip LONG -> SHORT happens only with allow_flips, entry = -1
\* and direction = -1, and SHORT -> LONG only with allow_flips, entry = 1 and
\* direction = 1 (the docstring's rule).
C10_FlipOnlyInOpposingRegime ==
    StepTaken =>
        /\ (prev_position = 1 /\ current_position = -1) =>
              (allow_flips /\ EntryRead = -1 /\ DirectionRead = -1)
        /\ (prev_position = -1 /\ current_position = 1) =>
              (allow_flips /\ EntryRead = 1 /\ DirectionRead = 1)

\* The bars whose metadata the current or the last call has written.
MetaBarsDone ==
    IF meta_pc = "loop"
    THEN {b \in 1..(Len(df_out) - 1) : b < meta_i}
    ELSE IF meta_calls >= 1 THEN 1..(Len(df_out) - 1) ELSE {}

\* add_signal_metadata has returned at least once and is not running.
MetadataAdded == meta_pc = "idle" /\ meta_calls >= 1

\* The documented table of trade types by (previous, current) position.
TypeTable(prev_pos, curr_pos) ==
    CASE prev_pos = 0 /\ curr_pos = 1 -> "entry_long"
      [] prev_pos = 0 /\ curr_pos = -1 -> "entry_short"
      [] prev_pos = 1 /\ curr_pos = 0 -> "exit_long"
      [] prev_pos = -1 /\ curr_pos = 0 -> "exit_short"
      [] prev_pos = 1 /\ curr_pos = -1 -> "flip_long_to_short"
      [] prev_pos = -1 /\ curr_pos = 1 -> "flip_short_to_long"
      [] prev_pos = 0 /\ curr_pos = 0 -> "flat"
      [] prev_pos = 1 /\ curr_pos = 1 -> "hold"
      [] prev_pos = -1 /\ curr_pos = -1 -> "hold"

\* C11: every bar that has a previous bar carries the trade type the table
\* gives for (previous position, current position), and bars_in_position is
\* 0 on every bar whose trade type is not 'hold'.
C11_TradeTypeTable ==
    /\ \A b \in MetaBarsDone :
          At(trade_type, b) = TypeTable(At(df_out, b - 1), At(df_out, b))
    /\ (meta_pc = "loop" \/ meta_calls >= 1) =>
          \A k \in 1..Len(df_out) :
              trade_type[k] # "hold" => bars_in_position[k] = 0

\* C11 witness: the metadata of the column 0, 1, -1, 0: an entry, a flip and
\* an exit.
C11_Witness ==
    /\ MetadataAdded
    /\ df_out = <<0, 1, -1, 0>>
    /\ trade_type = <<"hold", "entry_long", "flip_long_to_short", "exit_short">>
    /\ bars_in_position = <<0, 0, 0, 0>>

\* The most recent bar up to b on which the column differed from its
\* predecessor; bar 0, which has none, counts as such a bar.
LastChange(col, b) ==
    CHOOSE c \in 0..b :
        /\ c = 0 \/ At(col, c) # At(col, c - 1)
        /\ \A d \in (c + 1)..b : At(col, d) = At(col, d - 1)

\* The number of bars elapsed at bar b since the last position change.
RunLength(col, b) == b - LastChange(col, b)

\* C12 as claimed: on every bar bars_in_position is the run length since
\* the last position change, in LONG, SHORT and FLAT runs alike.  Only bars
\* at or after a bar that differs from its predecessor are compared, so that
\* the run length does not rest on how bar 0 is counted.
C12_RunLengthEveryRun ==
    \A b \in MetaBarsDone :
        LastChange(df_out, b) >= 1 =>
            At(bars_in_position, b) = RunLength(df_out, b)

\* C12 as amended: bars_in_position is a non-negative integer; on a LONG or
\* SHORT bar it is the run length since the last position change, and on
\* every FLAT bar it is 0.
C12_RunLengthInPosition ==
    \A b \in MetaBarsDone :
        /\ At(bars_in_position, b) \in Nat
        /\ At(bars_in_position, b) =
              IF At(df_out, b) = 0 THEN 0 ELSE RunLength(df_out, b)

\* C12 witness: the column 0, 1, 1, 0, 0 has counts 0, 0, 1, 0, 0: the LONG
\* run counts up and the FLAT run after it stays at 0.
C12_Witness ==
    /\ MetadataAdded
    /\ df_out = <<0, 1, 1, 0, 0>>
    /\ bars_in_position = <<0, 0, 1, 0, 0>>

\* C13: a later application of add_signal_metadata leaves the four metadata
\* columns and the combined-signal column as the first application left
\* them; the first application starts from a table without metadata.
C13_MetadataIdempotent ==
    (meta_pc = "idle" /\ meta_calls >= 2) => MetaColumns = first_meta

\* C13 witness: the second application has returned on a column that starts
\* inside a position and holds it.
C13_Witness ==
    /\ meta_pc = "idle" /\ meta_calls = 2 /\ meta_caller = "user"
    /\ df_out = <<0, -1, -1, -1>>
    /\ bars_in_position = <<0, 0, 1, 2>>
    /\ first_meta = MetaColumns

\* The bars that enter the position v from FLAT.
EntryBars(col, v) ==
    Cardinality({b \in 1..(Len(col) - 1) :
                    At(col, b - 1) = 0 /\ At(col, b) = v})

\* get_trade_summary has returned and nothing has run since.
Summarised == meta_pc = "idle" /\ meta_caller = "summary"

\* C14: get_trade_summary divides by no empty denominator: each average is
\* 0 without an entry of its direction and otherwise the bar count of that
\* sign over the entry count of that direction, and the percentages of a
\* table without bars are 0.
C14_SummaryDenominators ==
    Summarised =>
        /\ DivError \notin {summary.long_pct, summary.short_pct,
                            summary.flat_pct, summary.avg_bars_per_long_trade,
                            summary.avg_bars_per_short_trade}
        /\ summary.avg_bars_per_long_trade =
              IF EntryBars(df_out, 1) = 0 THEN Zero
              ELSE Frac(CountBars(df_out, 1), EntryBars(df_out, 1))
        /\ summary.avg_bars_per_short_trade =
              IF EntryBars(df_out, -1) = 0 THEN Zero
              ELSE Frac(CountBars(df_out, -1), EntryBars(df_out, -1))
        /\ Len(df_out) = 0 =>
              /\ summary.long_pct = Zero
              /\ summary.short_pct = Zero
              /\ summary.flat_pct = Zero

\* C14 witness: the summary of the column 0, -1, 1, whose LONG bar was
\* reached by a flip and not by an entry: the long average is 0, the short
\* one 1 / 1.
C14_Witness ==
    /\ Summarised
    /\ df_out = <<0, -1, 1>>
    /\ summary.long_bars = 1 /\ summary.entry_long_count = 0
    /\ summary.avg_bars_per_long_trade = Zero
    /\ summary.avg_bars_per_short_trade = Frac(1, 1)

\* ---------------------------------------------------------------- C15-C18

\* A method has generated its grid from the signal list.
GridInUse == g_pc \in {"sequential", "workers", "stocks", "done"}

\* Number of positions of the list seq that hold x.
Occurrences(seq, x) == Cardinality({k \in 1..Len(seq) : seq[k] = x})

\* C15: the grid a method generates holds every ordered pair (entry, exit)
\* of positions of the signal list, the pairs of a signal with itself
\* included, each exactly once: it has len(signals)^2 elements, a pair of
\* names occurs as often as its two names occur in the list (once when the
\* names of the list are distinct), and every element has the keys entry,
\* exit and name with name = '<entry>__<exit>'.
C15_GridIsEveryOrderedPair ==
    GridInUse =>
        /\ Len(grid) = Len(available_signals) * Len(available_signals)
        /\ \A k \in 1..Len(grid) :
              /\ DOMAIN grid[k] = {"entry", "exit", "name"}
              /\ grid[k].name = grid[k].entry \o "__" \o grid[k].exit
        /\ \A e \in ColumnNames, x \in ColumnNames :
              Cardinality({k \in 1..Len(grid) :
                              grid[k].entry = e /\ grid[k].exit = x})
                  = Occurrences(available_signals, e)
                        * Occurrences(available_signals, x)

\* A search over two distinct signals has run: four combinations, the first
\* and the last of them pairs of a signal with itself.
C15_Witness ==
    /\ g_pc = "done"
    /\ available_signals = <<"a", "a__a">>
    /\ Len(grid) = 4
    /\ grid[1] = [entry |-> "a", exit |-> "a", name |-> "a__a"]
    /\ grid[4].name = "a__a__a__a"

\* The constructor's arguments break one of the three rules.
BadConstructorArguments ==
    \/ direction_col \notin DOMAIN df_arg
    \/ \E k \in 1..Len(available_signals) :
          available_signals[k] = direction_col
    \/ \E k \in 1..Len(available_signals) :
          available_signals[k] \notin DOMAIN df_arg

\* C16: constructing a SignalGridSearch whose direction_col is in
\* available_signals, or is not a column of the table, or one of whose
\* signals is not a column of the table, raises ValueError; no grid has been
\* generated and no combination run by then, and none is afterwards (there
\* is no object to call).
C16_ConstructorRejects ==
    [][/\ (g_pc = "new" /\ BadConstructorArguments) =>
              /\ g_pc' = "raised"
              /\ g_error' = "ValueError"
              /\ grid' = << >>
              /\ results' = << >>
              /\ worker_results' = << >>
              /\ stock_results' = << >>
       /\ ~(g_pc = "raised" /\ g_method = "__init__")]_vars

\* The constructor has raised for a table that holds the direction column
\* and every signal, because the direction column is in the signal list.
C16_Witness ==
    /\ g_pc = "raised"
    /\ g_method = "__init__"
    /\ g_error = "ValueError"
    /\ direction_col \in DOMAIN df_arg
    /\ \A k \in 1..Len(available_signals) :
          available_signals[k] \in DOMAIN df_arg
    /\ \E k \in 1..Len(available_signals) :
          available_signals[k] = direction_col

\* The keys of a result record that hold counts.
CountKeys ==
    {"total_trades", "long_trades", "short_trades", "long_to_short_flips",
     "short_to_long_flips", "long_bars", "short_bars", "flat_bars"}

\* The keys of a result record that hold quotients.
QuotientKeys ==
    {"long_pct", "short_pct", "flat_pct", "avg_bars_per_long_trade",
     "avg_bars_per_short_trade"}

\* rec is the record of a failure: success=False, an error string, every
\* statistic 0.
IsFailureRecord(rec) ==
    /\ rec.success = FALSE
    /\ Len(rec.error) = 1
    /\ \A f \in CountKeys : rec[f] = 0
    /\ \A f \in QuotientKeys : rec[f] = Zero

\* recs holds one record per combination of g, in the order of g.
RecordsInGridOrder(recs, g) ==
    /\ Len(recs) = Len(g)
    /\ \A k \in 1..Len(g) :
          /\ recs[k].combination_name = g[k].name
          /\ recs[k].entry_signal = g[k].entry
          /\ recs[k].exit_signal = g[k].exit

\* Every column of the table after that is new or changed against the table
\* before is the output column of a successful record of recs.
OnlySuccessesWrite(before, after, recs) ==
    \A c \in DOMAIN after :
        (c \notin DOMAIN before \/ after[c] # before[c]) =>
            \E k \in 1..Len(recs) :
                recs[k].success /\ recs[k].output_column = c

\* C17: in run_grid_search every iteration appends exactly one record, the
\* one of its combination; when processing the combination raises, the
\* record is a failure record and the working table is left as it was.  The
\* worker returns a failure record without a combined signal for such a
\* combination, and the methods that collect the workers' records write no
\* column for it.  Every method ends with one record per combination of the
\* grid, in grid order, whatever combinations raised.
C17_FailureIsolation ==
    [][/\ (g_pc = "sequential" /\ Len(results) < Len(grid)) =>
              LET combo == grid[Len(results) + 1]
                  raised == Raises(self_df, n_rows, combo, direction_col)
              IN /\ Len(results') = Len(results) + 1
                 /\ SubSeq(results', 1, Len(results)) = results
                 /\ results'[Len(results')].combination_name = combo.name
                 /\ results'[Len(results')].success = ~raised
                 /\ raised => /\ IsFailureRecord(results'[Len(results')])
                              /\ self_df' = self_df
       /\ (g_pc = "sequential" /\ g_pc' # "sequential") =>
              RecordsInGridOrder(results', grid)
       /\ (g_pc = "workers" /\ pending' # pending) =>
              \A k \in DOMAIN worker_results' \ DOMAIN worker_results :
                  /\ worker_results'[k].combination_name = grid[k].name
                  /\ Raises(self_df, n_rows, grid[k], direction_col) =>
                        /\ IsFailureRecord(worker_results'[k])
                        /\ worker_results'[k].combined_signal = << >>
       /\ (g_pc = "workers" /\ g_pc' # "workers") =>
              /\ RecordsInGridOrder(results', grid)
              /\ \A k \in 1..Len(grid) :
                    results'[k].success
                        = ~Raises(self_df, n_rows, grid[k], direction_col)
              /\ OnlySuccessesWrite(self_df, self_df', results')
       /\ (g_pc = "stocks" /\ stocks_pending' # stocks_pending) =>
              \A t \in stocks_pending \ stocks_pending' :
                  /\ RecordsInGridOrder(stock_results'[t], grid)
                  /\ \A k \in 1..Len(grid) :
                        Raises(stock_dfs[t], n_rows, grid[k], direction_col)
                            => IsFailureRecord(stock_results'[t][k])
                  /\ OnlySuccessesWrite(stock_dfs[t], stock_dfs'[t],
                                        stock_results'[t])]_vars

\* run_grid_search has returned a record for each of four combinations: the
\* first succeeded and its column is in the working table, the others
\* raised and have no column.
C17_Witness ==
    /\ g_pc = "done"
    /\ g_method = "run_grid_search"
    /\ Len(results) = 4
    /\ results[1].success
    /\ results[1].output_column \in DOMAIN self_df
    /\ \A k \in 2..4 :
          /\ IsFailureRecord(results[k])
          /\ results[k].output_column \notin DOMAIN self_df

\* The records of recs without the key ticker.
WithoutTicker(recs) ==
    [k \in 1..Len(recs) |-> [f \in DOMAIN recs[k] \ {"ticker"} |-> recs[k][f]]]

\* The table tbl holds, under the name of every combination of the grid,
\* what the table ref holds under it.
SameCombinedColumns(tbl, ref) ==
    \A k \in 1..Len(grid) :
        LET c == grid[k].name
        IN /\ c \in DOMAIN tbl <=> c \in DOMAIN ref
           /\ c \in DOMAIN tbl => tbl[c] = ref[c]

\* What run_grid_search leaves on the table tbl with the grid, the direction
\* column and the flags of the call.
SequentialOn(tbl) ==
    SequentialRun(tbl, n_rows, grid, direction_col, run_flips, run_strict,
                  Len(grid))

\* The table the caller handed over for ticker t.
GivenStockTable(t) == StockTables(Len(Tickers), df_arg)[t]

\* C18: a parallel grid search that has returned, over combinations or over
\* symbols, has produced the records (statistics included) and the
\* combined-signal columns that run_grid_search produces on the same table,
\* signal list and flags.
C18_ParallelEqualsSequential ==
    /\ (g_pc = "done" /\ g_method = "run_grid_search_parallel") =>
           LET sequential == SequentialOn(df_arg)
           IN /\ results = sequential.results
              /\ SameCombinedColumns(self_df, sequential.df)
    /\ (g_pc = "done" /\ g_method = "run_grid_search_parallel_over_stocks") =>
           \A t \in DOMAIN stock_results :
               LET sequential == SequentialOn(GivenStockTable(t))
               IN /\ WithoutTicker(stock_results[t]) = sequential.results
                  /\ add_signals_to_dfs =>
                         SameCombinedColumns(stock_dfs[t], sequential.df)

\* ---------------------------------------------------------------- C19-C20

\* The entry points C19 names.
ForcedSequential ==
    {"run_grid_search_parallel", "run_grid_search_parallel_over_stocks",
     "run_position_sizing_parallel_over_stocks"}

\* C19: called with n_jobs=1, run_grid_search_parallel,
\* run_grid_search_parallel_over_stocks and
\* run_position_sizing_parallel_over_stocks raise for their arguments or run
\* on the sequential path; they create no pool and no executor, whatever the
\* number of units.
C19_OneJobIsSequential ==
    (d_pc # "idle" /\ d_n_jobs = 1 /\ d_strategy \in ForcedSequential) =>
        /\ d_workers = 0
        /\ d_path \in {"sequential", "none"}
        /\ d_path = "none" => d_pc = "raised"
        /\ d_path = "sequential" => d_error \in {"none", "KeyError"}

\* run_position_sizing_parallel_over_stocks has processed three symbols
\* with n_jobs=1 on a machine of two cores.
C19_Witness ==
    /\ d_strategy = "run_position_sizing_parallel_over_stocks"
    /\ d_n_jobs = 1
    /\ d_cores = 2
    /\ d_units = 3
    /\ d_pc = "done"
    /\ d_path = "sequential"
    /\ d_workers = 0

\* C20: an entry point that has started on at least one unit of work uses
\* min(resolved n_jobs, units) workers, n_jobs=-1 resolved to the core
\* count; when that minimum is 1 it is on the sequential path and has
\* created no pool and no executor.
C20_WorkersCappedAtUnits ==
    (d_pc \in {"running", "done"} /\ d_units >= 1) =>
        LET capped == EffectiveJobs(ResolveJobs(d_n_jobs, d_cores), d_units)
        IN /\ capped = 1 => (d_path = "sequential" /\ d_workers = 0)
           /\ capped > 1 => d_workers = capped

\* ---------------------------------------------------------------- C22-C24

\* calculate_shares is in its loop or has returned.
SizingStarted == ps_pc \in {"loop", "done"}

\* The bars whose iteration of the loop has run.
SizedBars == IF SizingStarted THEN 1..(ps_i - 1) ELSE {}

\* The value of column col at bar b, bar 0 being the first row.
Bar(col, b) == col[b + 1]

\* The signal changes at bar b.
SignalChanges(b) == At(ps_df.signal, b) # At(ps_df.signal, b - 1)

\* The stop of bar b lies at its price.
StopAtPrice(b) == At(ps_df.close, b) = At(ps_df.stop_loss, b)

\* The shares are recalculated at bar b.
RecalculationBar(b) == SignalChanges(b) /\ ~StopAtPrice(b)

C24_EqualWeightFromUpdatedEquity ==
    /\ EqualWeightShares(Num(100000), Frac(1, 10), 1, 50, 1) = Num(200)
    /\ \A b \in SizedBars :
           LET equity == Bar(df_equity["equal"], b)
               shs == Bar(df_shares["equal"], b)
               unit == At(ps_df.close, b) * sizer.lot
           IN (RecalculationBar(b) /\ unit # 0 /\ ~IsNaN(equity)) =>
                  /\ shs[2] = 1
                  /\ shs[1] % sizer.lot = 0
                  /\ LET lots == shs[1] \div sizer.lot
                         exact == Div(Mul(equity, sizer.equal_weight),
                                      Num(unit))
                     IN /\ Leq(Num(lots), exact)
                        /\ Less(exact, Num(lots + 1))

\* A bar has recalculated the equal-weight shares to a count that is not
\* zero and that the equity of the bar before does not give.
C24_Witness ==
    \E b \in SizedBars :
        LET equity == Bar(df_equity["equal"], b)
            before == Bar(df_equity["equal"], b - 1)
            shs == Bar(df_shares["equal"], b)
            unit == At(ps_df.close, b) * sizer.lot
        IN /\ RecalculationBar(b)
           /\ unit > 0
           /\ ~IsNaN(equity) /\ ~IsNaN(before)
           /\ shs[1] > 0
           /\ Floor(Div(Mul(before, sizer.equal_weight), Num(unit)))
                  * sizer.lot # shs[1]

\* ---------------------------------------------------------------- C26-C27

\* q is a whole number, not negative, and a multiple of lot.
WholeLots(q, lot) == q[2] = 1 /\ q[1] >= 0 /\ q[1] % lot = 0

\* C26: at every bar of calculate_shares, for each of the four strategies,
\* the stored share count is a non-negative whole multiple of lot, whatever
\* the daily changes, those that drive an equity curve below zero included.
C26_SharesAreWholeLots ==
    \A b \in SizedBars : \A s \in Strategies :
        WholeLots(Bar(df_shares[s], b), sizer.lot)

\* C27: a bar whose signal changes and whose close is zero or negative does
\* not stop the loop of calculate_shares, and the four share counts stored
\* at it are 0.
C27_NoSharesAtDegeneratePrice ==
    /\ ps_pc = "loop" => ps_error = "none"
    /\ \A b \in SizedBars :
           (SignalChanges(b) /\ At(ps_df.close, b) <= 0) =>
               \A s \in Strategies : Bar(df_shares[s], b) = Zero

\* ---------------------------------------------------------------- C29-C30

\* The numbers r1 and r2 are equal: by their value when both are quotients,
\* else by their four parts, x ** pw being one-to-one on x >= 0.
SameNumber(r1, r2) ==
    IF RealIsRational(r1) /\ RealIsRational(r2)
    THEN RationalValue(r1) = RationalValue(r2)
    ELSE r1 = r2

\* The last value of risk_appetite over the first n bars of the equity
\* curve of strategy s.
RiskFromBars(s, n) ==
    LET risk_series == RiskAppetite(SubSeq(df_equity[s], 1, n),
                                    sizer.tolerance, sizer.mn, sizer.mx,
                                    RiskSpan, ShapeOf(s))
    IN risk_series[n]

\* C29: the concave and the convex risk value of bar i are computed from the equity of bars 0..i, the value just updated at bar i
\* included, and from no later bar.
C29_RiskThroughCurrentBar ==
    \A b \in SizedBars : \A s \in RiskStrategies :
        SameNumber(Bar(df_risk[s], b), RiskFromBars(s, b + 1))

\* The arguments p fail one of the conditions of the constructor.
InvalidParameters(p) ==
    \/ ~Less(p.tolerance, Zero)
    \/ ~Less(Zero, p.mn)
    \/ ~Less(Zero, p.mx)
    \/ Less(p.mx, p.mn)
    \/ ~Less(Zero, p.equal_weight)
    \/ Less(One, p.equal_weight)
    \/ p.lot <= 0
    \/ p.initial_capital <= 0

\* C30: the constructor of PositionSizing raises ValueError when tolerance
\* >= 0, mn <= 0, mx <= 0, mn > mx, equal_weight outside (0, 1], lot <= 0 or
\* initial_capital <= 0, and keeps no value in place of the one given; all
\* other arguments it accepts and stores as given.
C30_ConstructorValidates ==
    ps_pc # "new" =>
        IF InvalidParameters(ps_params)
        THEN ps_pc = "raised" /\ ps_error = "ValueError" /\ sizer = << >>
        ELSE /\ ps_pc # "raised" /\ sizer = ps_params
             /\ ps_pc = "ready" => ps_error = "none"

\* The constructor has raised for arguments whose only fault is mn > mx.
C30_Witness ==
    /\ ps_pc = "raised"
    /\ ps_error = "ValueError"
    /\ Less(ps_params.mx, ps_params.mn)
    /\ Less(ps_params.tolerance, Zero)
    /\ Less(Zero, ps_params.mx)
    /\ ps_params.equal_weight = One
    /\ ps_params.lot > 0
    /\ ps_params.initial_capital > 0

\* ---------------------------------------------------------------- C25, C28

\* The quotient q is below zero.
Negative(q) == ~IsNaN(q) /\ Less(q, Zero)

\* C25: for every px, sl, eqty, risk, fx and lot, eqty_risk_shares raises
\* nothing and returns a whole number >= 0 that is a multiple of lot, and it
\* returns 0 when px <= 0, lot <= 0, eqty < 0 or |sl - px| / px < 1e-8.
C25_SharesNeverRaise ==
    ers_result # << >> =>
        /\ ers_result.raised = "none"
        /\ ers_result.value >= 0
        /\ ers_args.lot > 0 => ers_result.value % ers_args.lot = 0
        /\ (\/ ~IsNaN(ers_args.px) /\ Leq(ers_args.px, Zero)
            \/ ers_args.lot <= 0
            \/ Negative(ers_args.eqty)
            \/ /\ ~IsNaN(ers_args.px) /\ ~IsNaN(ers_args.sl)
               /\ Less(Zero, ers_args.px)
               /\ Less(Div(AbsQ(Sub(ers_args.sl, ers_args.px)), ers_args.px),
                       Frac(1, 100000000))) =>
               ers_result.value = 0

\* The number r lies in [min(mn, mx), max(mn, mx)]: r is mn + (mx - mn) *
\* x ** pw with pw > 0, inside the interval exactly when mx = mn or x lies
\* in [0, 1].
WithinRange(r, mn, mx) ==
    LET lo == IF Less(mx, mn) THEN mx ELSE mn
        hi == IF Less(mx, mn) THEN mn ELSE mx
    IN IF RealIsRational(r)
       THEN Leq(lo, RationalValue(r)) /\ Leq(RationalValue(r), hi)
       ELSE Leq(Zero, r.x) /\ Leq(r.x, One)

\* C28: every value risk_appetite returns lies in [min(mn, mx), max(mn, mx)],
\* for every equity curve (the watermark after the fallback is never zero),
\* negative equity included, every tolerance < 0 and every shape.
C28_RiskWithinRange ==
    ra_result # << >> =>
        \A k \in 1..Len(ra_result) :
            WithinRange(ra_result[k], ra_args.mn, ra_args.mx)

\* -------------------------------------------------------------------- C21

\* The keys of stock_map in the order of the dictionary.
KeysInOrder(stock_map) ==
    SelectSeq(Tickers, LAMBDA t : t \in DOMAIN stock_map)

\* What the grid search stores for ticker t: the records of the worker on
\* the table handed over for t, without their combined signal.
GridResultOf(t) ==
    LET recs == ProcessStockAllCombinations(
                    t, GivenStockTable(t), n_rows, grid, direction_col,
                    run_flips, run_strict)
    IN [k \in 1..Len(recs) |-> WithoutCombinedSignal(recs[k])]

\* What position sizing stores for ticker t: the table of the worker on the
\* table handed over for t.
SizingResultOf(t) == ProcessStockPositionSizing(t, ps_stock_dfs[t], sizer)[2]

\* The mapping of the sequential path after the first k keys: one
\* assignment mapping[key] = ResultOf(key) per key, in the order of the
\* dictionary.
RECURSIVE SequentialMapping(_, _, _)
SequentialMapping(keys, ResultOf(_), k) ==
    IF k = 0
    THEN << >>
    ELSE LET sofar == SequentialMapping(keys, ResultOf, k - 1)
         IN [t \in DOMAIN sofar \cup {keys[k]} |->
                IF t = keys[k] THEN ResultOf(t) ELSE sofar[t]]

\* C21: while a fan-out over symbols runs, the mapping holds exactly the
\* symbols that have completed, each with the result of its own table,
\* whatever the order of completion; when the fan-out has returned, of the
\* grid search or of position sizing, the mapping has exactly the keys of
\* stock_dfs and is the mapping of the sequential path.
C21_FanOutKeyedBySymbol ==
    /\ (g_pc \in {"stocks", "done"}
          /\ g_method = "run_grid_search_parallel_over_stocks") =>
           /\ DOMAIN stock_results = DOMAIN stock_dfs \ stocks_pending
           /\ \A t \in DOMAIN stock_results :
                  stock_results[t] = GridResultOf(t)
           /\ g_pc = "done" =>
                  /\ DOMAIN stock_results = DOMAIN stock_dfs
                  /\ stock_results =
                         SequentialMapping(KeysInOrder(stock_dfs),
                                           GridResultOf,
                                           Len(KeysInOrder(stock_dfs)))
    /\ ps_stocks_pc \in {"stocks", "done"} =>
           /\ DOMAIN ps_stock_results = DOMAIN ps_stock_dfs \ ps_stocks_pending
           /\ \A t \in DOMAIN ps_stock_results :
                  ps_stock_results[t] = SizingResultOf(t)
           /\ ps_stocks_pc = "done" =>
                  /\ DOMAIN ps_stock_results = DOMAIN ps_stock_dfs
                  /\ ps_stock_results =
                         SequentialMapping(KeysInOrder(ps_stock_dfs),
                                           SizingResultOf,
                                           Len(KeysInOrder(ps_stock_dfs)))

\* Position sizing over two symbols has returned from the pool path: the
\* two tables differ, one of them lacks a required column, and the two
\* results differ.
C21_Witness ==
    /\ ps_stocks_pc = "done"
    /\ ps_stocks_mode = "pool"
    /\ DOMAIN ps_stock_results = {Tickers[1], Tickers[2]}
    /\ ps_stock_dfs[Tickers[1]] # ps_stock_dfs[Tickers[2]]
    /\ ps_stock_results[Tickers[1]] # ps_stock_results[Tickers[2]]
    /\ "stop_loss" \notin DOMAIN ps_stock_dfs[Tickers[1]]
    /\ "shares" \in DOMAIN ps_stock_results[Tickers[2]]

\* -------------------------------------------------------------------- C40

\* The names of the signal list are pairwise distinct.
DistinctSignals ==
    \A j \in 1..Len(available_signals), k \in 1..Len(available_signals) :
        available_signals[j] = available_signals[k] => j = k

\* C40: for a list of pairwise distinct signal names, the names of the
\* combinations of the grid are pairwise distinct and none of them is the
\* name of a signal of the list or of the direction column.
C40_GridNamesAreFresh ==
    (GridInUse /\ DistinctSignals) =>
        /\ \A j \in 1..Len(grid), k \in 1..Len(grid) :
              grid[j].name = grid[k].name => j = k
        /\ \A k \in 1..Len(grid) :
              /\ grid[k].name # direction_col
              /\ \A j \in 1..Len(available_signals) :
                    grid[k].name # available_signals[j]

\* -------------------------------------------------------------------- C38

\* C38: with require_regime_alignment = TRUE or allow_flips = FALSE, every
\* bar i >= 1 the call has written holds 1 only where the direction is not
\* -1 and -1 only where the direction is not 1; and with
\* require_regime_alignment = TRUE every bar on which the position becomes
\* LONG has direction 1 and every bar on which it becomes SHORT has
\* direction -1.
C38_NeverAgainstRegime ==
    pc = "loop" =>
        /\ (require_regime_alignment \/ ~allow_flips) =>
              \A b \in BarsDone :
                  /\ At(df_out, b) = 1 => At(df_direction, b) # -1
                  /\ At(df_out, b) = -1 => At(df_direction, b) # 1
        /\ require_regime_alignment =>
              \A b \in BarsDone :
                  /\ (At(df_out, b - 1) # 1 /\ At(df_out, b) = 1)
                        => At(df_direction, b) = 1
                  /\ (At(df_out, b - 1) # -1 /\ At(df_out, b) = -1)
                        => At(df_direction, b) = -1

\* C38 witness: under strict alignment, with flips allowed, a SHORT position
\* met a bullish bar with a long entry and no exit signal and became LONG,
\* after an earlier bar had taken it SHORT in a bearish regime.
C38_Witness ==
    /\ StepTaken /\ require_regime_alignment /\ allow_flips
    /\ i = 3
    /\ At(df_out, 1) = -1 /\ At(df_direction, 1) = -1
    /\ prev_position = -1 /\ DirectionRead = 1 /\ EntryRead = 1
    /\ ExitRead = 0
    /\ current_position = 1 /\ At(df_out, 2) = 1

\* -------------------------------------------------------------------- C33

\* C33: on a table that lacks the direction, the entry or the exit column,
\* combine_signals ends in KeyError for every length of the table, 0 and 1
\* included: it never returns on such a table; and when it ends in KeyError
\* the output column is still what the caller handed over.
C33_MissingColumnFailsFirst ==
    /\ (runs >= 1) => df_columns = InputColumns
    /\ (pc = "raised") =>
          /\ cs_error = "KeyError"
          /\ df_out = StaleColumn(NBars)

\* -------------------------------------------------------------------- C37

\* The column with the value v at bar j.
AlteredAt(col, j, v) == [col EXCEPT ![j + 1] = v]

\* The rows put in the place of a bar: an entry and an exit of either sign,
\* no signal at all, and values outside {-1, 0, 1}.
OtherRows ==
    {<<1, 1, 0>>, <<-1, -1, 0>>, <<1, 0, -1>>, <<-1, 0, 1>>, <<0, 0, 0>>,
     <<2, 2, 2>>}

\* The combined signal of the table whose bar j holds the row r instead.
CombinedWith(j, r) ==
    CombinedColumn(AlteredAt(df_direction, j, r[1]),
                   AlteredAt(df_entry, j, r[2]),
                   AlteredAt(df_exit, j, r[3]),
                   allow_flips, require_regime_alignment, NBars)

\* C37: the column a call has completed is causal with one bar of memory.
\* For the first call on a table, another row (of OtherRows) at a bar j
\* leaves the bars before j as they are, and another row at bar 0 leaves
\* every bar as it is; for every call, bar i >= 1 is the transition
\* rule applied to bar i - 1 of the column and the three inputs of bar i.
C37_CausalOneBarMemory ==
    LoopDone =>
        /\ runs = 0 =>
              \A j \in 0..(NBars - 1), r \in OtherRows :
                  LET other == CombinedWith(j, r)
                  IN \A b \in 0..(NBars - 1) :
                         (b < j \/ j = 0) => At(other, b) = At(df_out, b)
        /\ \A b \in 1..(NBars - 1) :
              At(df_out, b) =
                  NextPosition(At(df_out, b - 1), At(df_direction, b),
                               At(df_entry, b), At(df_exit, b),
                               allow_flips, require_regime_alignment)

\* C37 witness: a completed column of three bars that is LONG at bar 1 and
\* FLAT at bar 2, while bar 0 holds rows that ask for a position and another
\* row at bar 2 would have kept the position LONG.
C37_Witness ==
    /\ LoopDone /\ runs = 0 /\ NBars = 3
    /\ At(df_direction, 0) = 1 /\ At(df_entry, 0) = 1
    /\ At(df_out, 0) = 0 /\ At(df_out, 1) = 1 /\ At(df_out, 2) = 0
    /\ At(CombinedWith(2, <<1, 0, 0>>), 2) = 1
    /\ At(CombinedWith(2, <<1, 0, 0>>), 1) = 1

\* -------------------------------------------------------------------- C39

\* The column is one combine_signals returns: bar 0 holds 0.
StartsFlat == Len(df_out) = 0 \/ At(df_out, 0) = 0

\* The column is one combine_signals returns with allow_flips = FALSE: bar 0
\* holds 0 and no bar holds the opposite position of the bar before it.
StartsFlatNeverFlips ==
    /\ StartsFlat
    /\ \A k \in 1..(Len(df_out) - 1) :
          ~(df_out[k] = 1 /\ df_out[k + 1] = -1)
          /\ ~(df_out[k] = -1 /\ df_out[k + 1] = 1)

\* 1 if the last bar of the column holds a position of vs, else 0.
LastBarIn(vs) ==
    IF Len(df_out) >= 1 /\ df_out[Len(df_out)] \in vs THEN 1 ELSE 0

\* C39: in the summary of a column combine_signals returns, the openings of
\* LONG positions (entries and flips into LONG) less the closings (exits
\* and flips out of LONG) count 1 if the last bar is LONG and 0 otherwise,
\* and the same for SHORT; for a column without direct flips, total_entries
\* less total_exits is 1 if the last bar holds a position and 0 otherwise.
C39_TradeCountsConserved ==
    Summarised =>
        /\ StartsFlat =>
              /\ summary.entry_long_count + summary.flip_short_to_long_count
                    - summary.exit_long_count
                    - summary.flip_long_to_short_count = LastBarIn({1})
              /\ summary.entry_short_count + summary.flip_long_to_short_count
                    - summary.exit_short_count
                    - summary.flip_short_to_long_count = LastBarIn({-1})
        /\ StartsFlatNeverFlips =>
              summary.total_entries - summary.total_exits
                  = LastBarIn({1, -1})

\* C39 witness: the summary of the column 0, 1, -1, 0, -1: one long entry
\* closed by a flip, and two SHORT positions of which the last is open.
C39_Witness ==
    /\ Summarised
    /\ df_out = <<0, 1, -1, 0, -1>>
    /\ summary.entry_long_count = 1 /\ summary.flip_long_to_short_count = 1
    /\ summary.entry_short_count = 1 /\ summary.exit_short_count = 1
    /\ summary.exit_long_count = 0

\* -------------------------------------------------------------------- C36

\* The values of avg a second call on the same table is given.
OtherAverages == {Frac(1, 4), Frac(1, 2)}

\* The equity, risk and share columns of strategy s in the table the call has
\* written are those of the run r.
SameStrategyColumns(s, r) ==
    /\ df_equity[s] = r.equity[s]
    /\ df_shares[s] = r.shares[s]
    /\ s \in RiskStrategies => df_risk[s] = r.risk[s]

\* C36: in calculate_shares the four strategies do not influence one another:
\* a call given another avg leaves the equity, risk and share columns of the
\* equal, concave and convex strategies as they are.
C36_AvgMovesConstantOnly ==
    ps_pc \in {"done", "failed"} =>
        \A a \in OtherAverages :
            LET other == CalculateSharesForSignal(ps_df,
                                                  [sizer EXCEPT !.avg = a],
                                                  TableLen(ps_df) - 1)
            IN \A s \in Strategies \ {"constant"} :
                  SameStrategyColumns(s, other)

\* -------------------------------------------------------------------- C32

\* C32: when the stop-loss column or the close column named in a
\* calculate_shares call is absent from the table, the call raises before
\* any bar is processed: it does not return, and when the error surfaces no
\* bar was passed and the table is as it was handed over.
C32_MissingColumnRaisesBeforeBars ==
    (/\ ps_call = "direct"
     /\ ps_pc \in {"loop", "done", "failed"}
     /\ ~({"stop_loss", "close"} \subseteq DOMAIN ps_df)) =>
        /\ ps_pc # "done"
        /\ ps_i = 1
        /\ ps_pc = "failed" =>
              /\ ps_error = "KeyError"
              /\ Deref(InputRef(ps_ticker)) = ps_stock_dfs[ps_ticker]

\* -------------------------------------------------------------------- C31

\* C31: calculate_shares_for_signal never mutates its input table: while it
\* runs and after it has returned or raised, the caller's tables have the
\* columns and values they were handed over with, and the table it works on
\* and returns is another object, which carries the input columns and the
\* new columns of the signal.
C31_WrapperLeavesInputAlone ==
    (ps_call = "wrapper" /\ ps_pc \in {"loop", "done", "failed"}) =>
        /\ \A t \in DOMAIN ps_stock_dfs :
              Deref(InputRef(t)) = ps_stock_dfs[t]
        /\ ps_df_ref # InputRef(ps_ticker)
        /\ LET returned == Deref(ps_df_ref)
           IN /\ returned.cols = ps_stock_dfs[ps_ticker].cols
              /\ DOMAIN returned.out = {WorkerSignals[signal_k]}

\* The call has raised at the third bar, after it wrote shares at the
\* second.
C31_Witness ==
    /\ ps_call = "wrapper"
    /\ ps_pc = "failed"
    /\ ps_error = "ValueError"
    /\ ps_i = 2
    /\ df_shares.equal[2] # Zero
    /\ Deref(ps_df_ref) # ps_stock_dfs[ps_ticker]

\* -------------------------------------------------------------------- C34

\* The exception that ends calculate_shares on the table tbl within the bars
\* 1..bar, "none" if it passes them all.
RECURSIVE CalculateSharesError(_, _, _)
CalculateSharesError(tbl, p, bar) ==
    IF bar = 0
    THEN "none"
    ELSE LET before == CalculateSharesError(tbl, p, bar - 1)
         IN IF before # "none"
            THEN before
            ELSE LET prev == CalculateSharesForSignal(tbl, p, bar - 1)
                     eq_now == UpdateEquityColumns(prev.equity, bar,
                                                   prev.shares_dict,
                                                   At(tbl.daily_chg, bar))
                     risk_values == CalculateRiskAppetites(eq_now, bar, p)
                 IN IterationError(tbl, eq_now, bar, risk_values, p)

\* What the table res holds for the signal of the list, given the input
\* table: nothing if a required column is missing or sizing the signal
\* raises, else the columns of a whole run of calculate_shares.
SignalIsolated(given, res, signal_name) ==
    LET args == ColumnArguments(given, signal_name)
        last == TableLen(args) - 1
    IN IF DOMAIN args # RequiredColumns
       THEN signal_name \notin DOMAIN res.out
       ELSE IF CalculateSharesError(args, sizer, last) # "none"
       THEN signal_name \notin DOMAIN res.out
       ELSE /\ signal_name \in DOMAIN res.out
            /\ LET run == CalculateSharesForSignal(args, sizer, last)
               IN res.out[signal_name] =
                      [equity |-> run.equity, risk |-> run.risk,
                       shares |-> run.shares]

\* C34: in the per-symbol worker an exception while sizing one signal is
\* caught and isolated: the returned table has none of that signal's equity,
\* risk or share columns, every other requested signal of the symbol is
\* sized in full, a result is filed for every symbol, and the result of a
\* symbol depends on the table of that symbol alone.
C34_SignalFailureIsolated ==
    /\ \A t \in DOMAIN ps_stock_results :
          /\ ps_stock_results[t].cols = ps_stock_dfs[t].cols
          /\ \A k \in 1..Len(WorkerSignals) :
                SignalIsolated(ps_stock_dfs[t], ps_stock_results[t],
                               WorkerSignals[k])
    /\ (ps_call = "stocks" /\ ps_stocks_pc = "done") =>
          DOMAIN ps_stock_results = DOMAIN ps_stock_dfs

\* Two symbols have returned: for one, signal a raised at the third bar and
\* signal b was sized with shares; for the other both signals were sized.
C34_Witness ==
    /\ ps_call = "stocks"
    /\ ps_stocks_pc = "done"
    /\ \E t, u \in DOMAIN ps_stock_results :
          /\ DOMAIN ps_stock_results[t].out = {"b"}
          /\ "a_stop_loss" \in DOMAIN ps_stock_dfs[t].cols
          /\ ps_stock_results[t].out["b"].shares.equal[3] # Zero
          /\ DOMAIN ps_stock_results[u].out = {"a", "b"}

\* -------------------------------------------------------------------- C35

\* C35: every unit of work operates on a private copy of its input table.
\* While run_grid_search_parallel processes combinations, the table each
\* combination copies holds no write of another combination: it is the
\* table as it was before the run.  During and after
\* run_grid_search_parallel_over_stocks without add_signals_to_dfs, and
\* during and after run_position_sizing_parallel_over_stocks, the caller's
\* tables are as they were handed over.
C35_UnitsOnPrivateCopies ==
    /\ (/\ g_method = "run_grid_search_parallel"
        /\ g_pc \in {"sequential", "workers"}) =>
           self_df = df_arg
    /\ (/\ g_method = "run_grid_search_parallel_over_stocks"
        /\ g_pc \in {"stocks", "done"}
        /\ ~add_signals_to_dfs) =>
           \A t \in DOMAIN stock_dfs : stock_dfs[t] = GivenStockTable(t)
    /\ ps_call \in {"stocks", "signals", "sizing"} =>
           \A t \in DOMAIN ps_stock_dfs :
               Deref(InputRef(t)) = ps_stock_dfs[t]

====
